---- MODULE Spec2Model ----
(***************************************************************************)
(* Model of the agent-reasoning translation orchestrator                   *)
(* (codex-rs/tui/src/chatwidget/agent_reasoning_translation.rs) together   *)
(* with the background translation tasks it spawns and the completion      *)
(* channel that joins them.                                                *)
(*                                                                         *)
(* Strings are sequences of one-character strings, Option<T> is a sequence *)
(* of length 0 (None) or 1 (Some).                                         *)
(***************************************************************************)
EXTENDS Integers, Sequences, FiniteSets, TLC

\* ------------------------------------------------------------------ bounds
\* Number of calls (insertions and direct dispatches) the host makes in one
\* run of the full host interface.
MaxCalls == 2

\* Number of history cells the host inserts in one run of the insertion and
\* flush protocol.
MaxUnits == 3

\* Number of reasoning cells the host inserts in one run of the title
\* protocol.
MaxTitleCells == 2

\* Number of cells the host inserts in one run of the tasks with their
\* external commands.
MaxTaskCells == 2

\* Number of cells the host inserts in one run of the barrier across thread
\* switches.
MaxPendingCells == 2

\* ------------------------------------------------------------ Option<T>
None == <<>>
Some(x) == <<x>>
IsSome(o) == o # <<>>
Unwrap(o) == o[1]

\* --------------------------------------------------------------- strings
IsWhitespace(c) == c \in {" ", "\t", "\n", "\r"}

\* The characters of a string literal, as a sequence.
Chars(str) == [i \in 1..Len(str) |-> SubSeq(str, i, i)]

\* str::contains
Contains(s, pattern) ==
  \E i \in 1..(Len(s) - Len(pattern) + 1) :
    SubSeq(s, i, i + Len(pattern) - 1) = pattern

RECURSIVE trim_start(_)
trim_start(s) ==
  IF s # <<>> /\ IsWhitespace(Head(s)) THEN trim_start(Tail(s)) ELSE s

RECURSIVE trim_end(_)
trim_end(s) ==
  IF s # <<>> /\ IsWhitespace(s[Len(s)])
    THEN trim_end(SubSeq(s, 1, Len(s) - 1))
    ELSE s

trim(s) == trim_end(trim_start(s))

\* str::find("**"): the 0-based index of the first occurrence, or None.
find_bold(s) ==
  LET hits == {i \in 1..(Len(s) - 1) : s[i] = "*" /\ s[i + 1] = "*"}
  IN  IF hits = {} THEN None
      ELSE Some((CHOOSE i \in hits : \A j \in hits : i <= j) - 1)

\* &s[from..] with a 0-based start.
slice_from(s, from) == SubSeq(s, from + 1, Len(s))

\* &s[from..to] with 0-based, end-exclusive bounds.
slice(s, from, to) == SubSeq(s, from + 1, to)

\* The bold-lead title: the text between the first matched pair of bold
\* markers (chatwidget's extract_first_bold, shared by raw and translated
\* text).
extract_first_bold(s) ==
  LET open == find_bold(s)
  IN  IF ~IsSome(open) THEN None
      ELSE LET start == Unwrap(open) + 2
               close == find_bold(slice_from(s, start))
           IN  IF ~IsSome(close) THEN None
               ELSE Some(slice(s, start, start + Unwrap(close)))

extract_reasoning_body_for_translation(full_reasoning_markdown) ==
  LET md   == trim(full_reasoning_markdown)
      open == find_bold(md)
  IN  IF ~IsSome(open) THEN None
      ELSE LET after_open == slice_from(md, Unwrap(open) + 2)
               close      == find_bold(after_open)
           IN  IF ~IsSome(close) THEN None
               ELSE LET after_close_idx == Unwrap(open) + 2 + Unwrap(close) + 2
                    IN  IF after_close_idx >= Len(md) THEN None
                        ELSE LET body == trim_start(slice_from(md, after_close_idx))
                             IN  IF body = <<>> THEN None ELSE Some(body)

\* The bilingual form with the two titles in each other's place.
format_bilingual_title_swapped(original, translated) ==
  translated \o <<"(">> \o original \o <<")">>

format_bilingual_title(original, translated) ==
  original \o <<"(">> \o translated \o <<")">>

\* ---------------------------------------------------------------- inputs
ThreadIds == {"t1", "t2"}

\* ui_max_wait of the configuration, in milliseconds.
ConfigWaits == {1}
Configs == {[ui_max_wait |-> w] : w \in ConfigWaits}

\* CODEX_TUI_AGENT_REASONING_TRANSLATION_MAX_WAIT_MS at start-up: unset, or a
\* number with a leading blank.
EnvValues == {None, Some(<<" ", "0">>)}

\* Reasoning markdown handed over by finished reasoning cells.
ReasoningTexts ==
  { <<"*", "*", "P", "*", "*", "b">>,      \* title P, body b
    <<"*", "*", "P", "*", "*", " ">> }     \* title P, blank body

\* Results of a successful translate_text (trimmed, never empty).
TranslatedTexts ==
  { <<"*", "*", "Q", "*", "*", "c">> }     \* title Q, body c

\* Rendered TranslationError values.
ErrorTexts == { <<"translator timed out">> }

\* --------------------------------------------------------- history cells
\* A host cell; md is ReasoningSummaryCell::full_markdown_for_translation
\* (None for every other kind of cell).  id numbers the host's requests.
HostCell(id, md) ==
  [kind |-> IF IsSome(md) THEN "reasoning" ELSE "plain",
   id |-> id, md |-> md, title |-> None, text |-> <<>>]

new_agent_reasoning_translation_block(title, body) ==
  [kind |-> "translation", id |-> 0, md |-> None, title |-> title, text |-> body]

new_agent_reasoning_translation_error_block(title, reason) ==
  [kind |-> "translation_error", id |-> 0, md |-> None, title |-> title,
   text |-> reason]

full_markdown_for_translation(cell) == cell.md

\* ----------------------------------------------------------------- state
VARIABLES
  enabled,                      \* orchestrator.enabled
  title_translation_cache,      \* set of [k, v]: at most one entry per key
  current_reasoning_title_raw,  \* Option<String>
  body_translation_barrier,     \* Option<Barrier>
  deferred_history_cells,       \* VecDeque of cells
  body_translation_seq,         \* next request id
  body_translation_results,     \* the completion channel (tx -> rx)
  app_events,                   \* InsertHistoryCell events sent to the UI sink
  tasks,                        \* spawned translation tasks still running
  now,                          \* Instant::now(), in milliseconds
  active_thread_id,             \* the host's active thread, Option<ThreadId>
  env_max_wait,                 \* the environment override, Option<String>
  posted,                       \* posted[id + 1]: messages sent for request id
  history,                      \* log of requests, dispatches and resolutions
  runner,                       \* one call of run_translation_command and its child
  resolver,                     \* the configuration resolved and the warn-once state
  reader                        \* one call of read_to_end_limited, read by read

vars == <<enabled, title_translation_cache, current_reasoning_title_raw,
          body_translation_barrier, deferred_history_cells,
          body_translation_seq, body_translation_results, app_events, tasks,
          now, active_thread_id, env_max_wait, posted, history, runner,
                 resolver, reader>>

\* The orchestrator's fields and the effects of its calls, as one value the
\* operations below transform.
Self ==
  [enabled |-> enabled,
   title_translation_cache |-> title_translation_cache,
   current_reasoning_title_raw |-> current_reasoning_title_raw,
   body_translation_barrier |-> body_translation_barrier,
   deferred_history_cells |-> deferred_history_cells,
   body_translation_seq |-> body_translation_seq,
   body_translation_results |-> body_translation_results,
   app_events |-> app_events,
   tasks |-> tasks,
   posted |-> posted,
   history |-> history]

Log(s, ev, id) == [s EXCEPT !.history = Append(@, [ev |-> ev, id |-> id])]

\* app_event_tx.send(AppEvent::InsertHistoryCell(cell))
SendInsertHistoryCell(s, cell) ==
  Log([s EXCEPT !.app_events = Append(@, cell)], "emit", cell.id)

\* --------------------------------------------------- max-wait override
Digits == {"0", "1", "2", "3", "4", "5", "6", "7", "8", "9"}
DigitValue(c) == CHOOSE n \in 0..9 : ToString(n) = c

RECURSIVE DecimalValue(_)
DecimalValue(s) ==
  IF s = <<>> THEN 0
  ELSE 10 * DecimalValue(SubSeq(s, 1, Len(s) - 1)) + DigitValue(s[Len(s)])

\* str::parse::<u64>() on the values of the model: decimal digits only.
parse_u64(s) ==
  IF s # <<>> /\ \A i \in 1..Len(s) : s[i] \in Digits
    THEN Some(DecimalValue(s))
    ELSE None

\* An override that is parsed as it is, blanks included.
max_wait_with_env_override_untrimmed(config_max_wait) ==
  IF IsSome(env_max_wait)
    THEN LET parsed == parse_u64(Unwrap(env_max_wait))
         IN  IF IsSome(parsed) THEN Unwrap(parsed) ELSE config_max_wait
    ELSE config_max_wait

max_wait_with_env_override(config_max_wait) ==
  IF IsSome(env_max_wait)
    THEN LET parsed == parse_u64(trim(Unwrap(env_max_wait)))
         IN  IF IsSome(parsed) THEN Unwrap(parsed) ELSE config_max_wait
    ELSE config_max_wait

\* ------------------------------------------------------------- dispatch
\* Each operation returns the orchestrator it leaves behind; intermediate
\* values are handed on as arguments, one use each.

\* The barrier is stored under the counter's value and the counter stays.
open_barrier_reusing_id(s, thread_id, title, max_wait) ==
  [s |-> Log([s EXCEPT
                !.posted = Append(@, 0),
                !.body_translation_barrier =
                   Some([request_id |-> s.body_translation_seq,
                         thread_id |-> thread_id,
                         title |-> title,
                         max_wait |-> max_wait,
                         deadline |-> now + max_wait])],
             "open", s.body_translation_seq),
   request_id |-> Some(s.body_translation_seq)]

\* The barrier is stored and the request id handed out.  The counter's
\* saturation at 2^64 - 1 lies beyond every run of the model.
open_barrier(s, thread_id, title, max_wait) ==
  [s |-> Log([s EXCEPT
                !.body_translation_seq = @ + 1,
                !.posted = Append(@, 0),
                !.body_translation_barrier =
                   Some([request_id |-> s.body_translation_seq,
                         thread_id |-> thread_id,
                         title |-> title,
                         max_wait |-> max_wait,
                         deadline |-> now + max_wait])],
             "open", s.body_translation_seq),
   request_id |-> Some(s.body_translation_seq)]

\* begin that does not look at the open barrier.
begin_body_translation_barrier_overwriting(s, config_max_wait, thread_id, title) ==
  open_barrier(s, thread_id, title, max_wait_with_env_override(config_max_wait))

\* begin that takes the next request id before it looks at the barrier.
begin_body_translation_barrier_counting(s, config_max_wait, thread_id, title) ==
  IF IsSome(s.body_translation_barrier)
    THEN [s |-> [s EXCEPT !.body_translation_seq = @ + 1], request_id |-> None]
    ELSE open_barrier(s, thread_id, title,
                      max_wait_with_env_override(config_max_wait))

\* Returns the new state and the request id (None when a barrier is open).
begin_body_translation_barrier(s, config_max_wait, thread_id, title) ==
  IF IsSome(s.body_translation_barrier)
    THEN [s |-> s, request_id |-> None]
    ELSE open_barrier(s, thread_id, title,
                      max_wait_with_env_override(config_max_wait))

\* tokio::spawn: the task owns the request id, the thread id, the title and
\* the text.  Nothing is spawned when begin returned no id.
spawn_translation(begun, thread_id, title, full_reasoning) ==
  IF ~IsSome(begun.request_id) THEN begun.s
  ELSE [begun.s EXCEPT !.tasks = @ \cup
          {[request_id |-> Unwrap(begun.request_id),
            thread_id |-> thread_id,
            title |-> title,
            full_reasoning |-> full_reasoning]}]

\* The dispatch that does not ask whether the orchestrator is enabled.
maybe_translate_reasoning_body_when_disabled(s, config, thread_id, full_reasoning) ==
  IF ~IsSome(config) THEN s
  ELSE IF ~IsSome(thread_id) THEN s
  ELSE IF ~IsSome(extract_reasoning_body_for_translation(full_reasoning)) THEN s
  ELSE IF trim(Unwrap(extract_reasoning_body_for_translation(full_reasoning))) = <<>>
    THEN s
  ELSE spawn_translation(
         begin_body_translation_barrier(
           s, Unwrap(config).ui_max_wait, Unwrap(thread_id),
           extract_first_bold(full_reasoning)),
         Unwrap(thread_id), extract_first_bold(full_reasoning), full_reasoning)

\* config and thread_id are Options.
maybe_translate_reasoning_body(s, config, thread_id, full_reasoning) ==
  IF ~s.enabled THEN s
  ELSE IF ~IsSome(config) THEN s
  ELSE IF ~IsSome(thread_id) THEN s
  ELSE IF ~IsSome(extract_reasoning_body_for_translation(full_reasoning)) THEN s
  ELSE IF trim(Unwrap(extract_reasoning_body_for_translation(full_reasoning))) = <<>>
    THEN s
  ELSE spawn_translation(
         begin_body_translation_barrier(
           s, Unwrap(config).ui_max_wait, Unwrap(thread_id),
           extract_first_bold(full_reasoning)),
         Unwrap(thread_id), extract_first_bold(full_reasoning), full_reasoning)

\* ------------------------------------------------------------ insertion
\* emit_history_cell that queues at the front.
emit_history_cell_push_front(s, cell) ==
  IF IsSome(s.body_translation_barrier)
    THEN [s EXCEPT !.deferred_history_cells = <<cell>> \o @]
    ELSE SendInsertHistoryCell(s, cell)

emit_history_cell(s, cell) ==
  IF IsSome(s.body_translation_barrier)
    THEN [s EXCEPT !.deferred_history_cells = Append(@, cell)]
    ELSE SendInsertHistoryCell(s, cell)

\* The translation hook, once the cell is with the UI sink.
translate_if_reasoning(sent, config, thread_id, maybe_reasoning_for_translation) ==
  IF IsSome(maybe_reasoning_for_translation)
    THEN maybe_translate_reasoning_body(
           sent, config, thread_id, Unwrap(maybe_reasoning_for_translation))
    ELSE sent

emit_history_cell_with_translation_hook(s, config, thread_id, cell) ==
  IF IsSome(s.body_translation_barrier)
    THEN [s EXCEPT !.deferred_history_cells = Append(@, cell)]
    ELSE translate_if_reasoning(SendInsertHistoryCell(s, cell), config, thread_id,
                                full_markdown_for_translation(cell))

\* ---------------------------------------------------------------- flush
RECURSIVE flush_deferred_history_cells(_, _, _)

\* The flush that goes on after a chained dispatch opened a barrier.
flush_after_dispatch_without_break(chained, config, thread_id) ==
  flush_deferred_history_cells(chained, config, thread_id)

\* After the chained dispatch of a popped reasoning cell: stop when it opened
\* a barrier.
flush_after_dispatch(chained, config, thread_id) ==
  IF IsSome(chained.body_translation_barrier)
    THEN chained
    ELSE flush_deferred_history_cells(chained, config, thread_id)

\* A flush that pops one cell and leaves the rest of the queue.
flush_after_send_once(sent, cell, config, thread_id) ==
  IF IsSome(full_markdown_for_translation(cell))
     /\ ~IsSome(sent.body_translation_barrier)
    THEN maybe_translate_reasoning_body(
           sent, config, thread_id, Unwrap(full_markdown_for_translation(cell)))
    ELSE sent

\* After the popped cell went to the UI sink.
flush_after_send(sent, cell, config, thread_id) ==
  IF IsSome(full_markdown_for_translation(cell))
     /\ ~IsSome(sent.body_translation_barrier)
    THEN flush_after_dispatch(
           maybe_translate_reasoning_body(
             sent, config, thread_id, Unwrap(full_markdown_for_translation(cell))),
           config, thread_id)
    ELSE flush_deferred_history_cells(sent, config, thread_id)

flush_deferred_history_cells(s, config, thread_id) ==
  IF s.deferred_history_cells = <<>> THEN s
  ELSE flush_after_send(
         SendInsertHistoryCell([s EXCEPT !.deferred_history_cells = Tail(@)],
                               Head(s.deferred_history_cells)),
         Head(s.deferred_history_cells), config, thread_id)

\* ----------------------------------------------------------- resolution
CacheGet(cache, key) ==
  IF \E e \in cache : e.k = key
    THEN Some((CHOOSE e \in cache : e.k = key).v)
    ELSE None

\* HashMap::insert: the entry of the key is replaced.
CacheInsert(cache, key, value) ==
  {e \in cache : e.k # key} \cup {[k |-> key, v |-> value]}

NoResult == [status_header_update |-> None, needs_redraw |-> FALSE]

\* A cache that takes every translated title, under the empty key when the
\* reasoning had no title.
cache_translated_title_unconditionally(s, title, translated_title) ==
  IF IsSome(translated_title)
    THEN [s EXCEPT !.title_translation_cache =
            CacheInsert(@, IF IsSome(title) THEN Unwrap(title) ELSE <<>>,
                        Unwrap(translated_title))]
    ELSE s

\* The title pair is cached when both titles exist.
cache_translated_title(s, title, translated_title) ==
  IF IsSome(title) /\ IsSome(translated_title)
    THEN [s EXCEPT !.title_translation_cache =
            CacheInsert(@, Unwrap(title), Unwrap(translated_title))]
    ELSE s

header_update_for(s, title, translated_title) ==
  IF IsSome(title) /\ IsSome(translated_title)
     /\ s.current_reasoning_title_raw = title
    THEN Some(format_bilingual_title(Unwrap(title), Unwrap(translated_title)))
    ELSE None

\* The body shown for a translation: the extracted body, else the whole text,
\* trimmed; the whole text again when that is empty.
translated_body_of(translated, extracted) ==
  IF trim(IF IsSome(extracted) THEN Unwrap(extracted) ELSE translated) = <<>>
    THEN translated
    ELSE trim(IF IsSome(extracted) THEN Unwrap(extracted) ELSE translated)

\* The translation that flushes the queue before it shows its own cell.
apply_translated_flush_first(cleared, msg, translated, thread_id, config) ==
  [s |-> emit_history_cell(
           flush_deferred_history_cells(
             cache_translated_title(cleared, msg.title, extract_first_bold(translated)),
             config, thread_id),
           new_agent_reasoning_translation_block(
             None,
             translated_body_of(translated,
                                extract_reasoning_body_for_translation(translated)))),
   result |-> [status_header_update |->
                 header_update_for(cleared, msg.title, extract_first_bold(translated)),
               needs_redraw |-> TRUE]]

\* The barrier is cleared; the message carries a translation.
apply_translated(cleared, msg, translated, thread_id, config) ==
  [s |-> flush_deferred_history_cells(
           emit_history_cell(
             cache_translated_title(cleared, msg.title, extract_first_bold(translated)),
             new_agent_reasoning_translation_block(
               None,
               translated_body_of(translated,
                                  extract_reasoning_body_for_translation(translated)))),
           config, thread_id),
   result |-> [status_header_update |->
                 header_update_for(cleared, msg.title, extract_first_bold(translated)),
               needs_redraw |-> TRUE]]

\* A failure that shows its cell and leaves the deferred queue as it is.
apply_error_without_flush(cleared, msg, thread_id, config) ==
  [s |-> emit_history_cell(
           cleared,
           new_agent_reasoning_translation_error_block(
             msg.title,
             IF IsSome(msg.error) THEN Unwrap(msg.error) ELSE <<"unknown error">>)),
   result |-> [status_header_update |-> None, needs_redraw |-> TRUE]]

\* The barrier is cleared; the message carries no translation.
apply_error(cleared, msg, thread_id, config) ==
  [s |-> flush_deferred_history_cells(
           emit_history_cell(
             cleared,
             new_agent_reasoning_translation_error_block(
               msg.title,
               IF IsSome(msg.error) THEN Unwrap(msg.error) ELSE <<"unknown error">>)),
           config, thread_id),
   result |-> [status_header_update |-> None, needs_redraw |-> TRUE]]

apply_completion(cleared, msg, thread_id, config) ==
  IF IsSome(msg.translated)
    THEN apply_translated(cleared, msg, Unwrap(msg.translated), thread_id, config)
    ELSE apply_error(cleared, msg, thread_id, config)

\* on_body_translated that does not ask whether the message's thread is the
\* active one.
on_body_translated_any_thread(s, msg, thread_id, config) ==
  IF ~IsSome(s.body_translation_barrier) THEN [s |-> s, result |-> NoResult]
  ELSE IF Unwrap(s.body_translation_barrier).request_id # msg.request_id
    THEN [s |-> s, result |-> NoResult]
  ELSE IF Unwrap(s.body_translation_barrier).thread_id # msg.thread_id
    THEN [s |-> s, result |-> NoResult]
  ELSE apply_completion(
         Log([s EXCEPT !.body_translation_barrier = None], "apply", msg.request_id),
         msg, thread_id, config)

\* on_body_translated that does not compare request ids.
on_body_translated_any_request(s, msg, thread_id, config) ==
  IF ~IsSome(s.body_translation_barrier) THEN [s |-> s, result |-> NoResult]
  ELSE IF Unwrap(s.body_translation_barrier).thread_id # msg.thread_id
    THEN [s |-> s, result |-> NoResult]
  ELSE IF thread_id # Some(msg.thread_id)
    THEN [s |-> s, result |-> NoResult]
  ELSE apply_completion(
         Log([s EXCEPT !.body_translation_barrier = None], "apply",
             Unwrap(s.body_translation_barrier).request_id),
         msg, thread_id, config)

\* on_body_translated that applies the message and leaves the barrier open.
on_body_translated_keeping_barrier(s, msg, thread_id, config) ==
  IF ~IsSome(s.body_translation_barrier) THEN [s |-> s, result |-> NoResult]
  ELSE IF Unwrap(s.body_translation_barrier).request_id # msg.request_id
    THEN [s |-> s, result |-> NoResult]
  ELSE IF Unwrap(s.body_translation_barrier).thread_id # msg.thread_id
    THEN [s |-> s, result |-> NoResult]
  ELSE IF thread_id # Some(msg.thread_id)
    THEN [s |-> s, result |-> NoResult]
  ELSE apply_completion(Log(s, "apply", msg.request_id), msg, thread_id, config)

\* Returns the new state and the OnBodyTranslatedResult.
on_body_translated(s, msg, thread_id, config) ==
  IF ~IsSome(s.body_translation_barrier) THEN [s |-> s, result |-> NoResult]
  ELSE IF Unwrap(s.body_translation_barrier).request_id # msg.request_id
    THEN [s |-> s, result |-> NoResult]
  ELSE IF Unwrap(s.body_translation_barrier).thread_id # msg.thread_id
    THEN [s |-> s, result |-> NoResult]
  ELSE IF thread_id # Some(msg.thread_id)
    THEN [s |-> s, result |-> NoResult]
  ELSE apply_completion(
         Log([s EXCEPT !.body_translation_barrier = None], "apply", msg.request_id),
         msg, thread_id, config)

RECURSIVE drain_loop(_, _, _, _)

\* The fold that keeps the header of the last message, honoured or not.
drain_after_last_result(r, out, thread_id, config) ==
  drain_loop(r.s,
             [status_header_update |-> r.result.status_header_update,
              needs_redraw |-> out.needs_redraw \/ r.result.needs_redraw],
             thread_id, config)

\* The result of one message is folded into the tick's result.
drain_after(r, out, thread_id, config) ==
  drain_loop(r.s,
             [status_header_update |->
                IF IsSome(r.result.status_header_update)
                  THEN r.result.status_header_update
                  ELSE out.status_header_update,
              needs_redraw |-> out.needs_redraw \/ r.result.needs_redraw],
             thread_id, config)

\* The try_recv loop: every message in the channel, in channel order.
drain_loop(s, out, thread_id, config) ==
  IF s.body_translation_results = <<>> THEN [s |-> s, result |-> out]
  ELSE drain_after(
         on_body_translated([s EXCEPT !.body_translation_results = Tail(@)],
                            Head(s.body_translation_results), thread_id, config),
         out, thread_id, config)

\* The drain that does not ask whether the orchestrator is enabled.
drain_body_translation_results_when_disabled(s, thread_id, config) ==
  drain_loop(s, NoResult, thread_id, config)

drain_body_translation_results(s, thread_id, config) ==
  IF ~s.enabled THEN [s |-> s, result |-> NoResult]
  ELSE drain_loop(s, NoResult, thread_id, config)

TimeoutReason(max_wait_ms) ==
  <<"waiting timed out (", ToString(max_wait_ms),
    "ms); skipped translation output">>

\* The timeout without its flush of the queue.
flush_timeout_without_flush(s, barrier, config, thread_id) ==
  emit_history_cell(
    Log([s EXCEPT !.body_translation_barrier = None], "timeout", barrier.request_id),
    new_agent_reasoning_translation_error_block(
      barrier.title, TimeoutReason(barrier.max_wait)))

\* The timeout whose placeholder carries no title.
flush_timeout_untitled(s, barrier, config, thread_id) ==
  flush_deferred_history_cells(
    emit_history_cell(
      Log([s EXCEPT !.body_translation_barrier = None], "timeout", barrier.request_id),
      new_agent_reasoning_translation_error_block(
        None, TimeoutReason(barrier.max_wait))),
    config, thread_id)

\* The expired barrier is cleared, the placeholder emitted, the queue flushed.
flush_timeout(s, barrier, config, thread_id) ==
  flush_deferred_history_cells(
    emit_history_cell(
      Log([s EXCEPT !.body_translation_barrier = None], "timeout", barrier.request_id),
      new_agent_reasoning_translation_error_block(
        barrier.title, TimeoutReason(barrier.max_wait))),
    config, thread_id)

\* The timeout that fires only once the deadline lies behind.
maybe_flush_timeout_after_deadline(s, config, thread_id) ==
  IF ~s.enabled THEN [s |-> s, fired |-> FALSE]
  ELSE IF ~IsSome(s.body_translation_barrier) THEN [s |-> s, fired |-> FALSE]
  ELSE IF now <= Unwrap(s.body_translation_barrier).deadline
    THEN [s |-> s, fired |-> FALSE]
  ELSE [s |-> flush_timeout(s, Unwrap(s.body_translation_barrier), config, thread_id),
        fired |-> TRUE]

\* Returns the new state and whether the timeout fired.
maybe_flush_timeout(s, config, thread_id) ==
  IF ~s.enabled THEN [s |-> s, fired |-> FALSE]
  ELSE IF ~IsSome(s.body_translation_barrier) THEN [s |-> s, fired |-> FALSE]
  ELSE IF now < Unwrap(s.body_translation_barrier).deadline
    THEN [s |-> s, fired |-> FALSE]
  ELSE [s |-> flush_timeout(s, Unwrap(s.body_translation_barrier), config, thread_id),
        fired |-> TRUE]

tick_result(timeout, result) ==
  [s |-> timeout.s,
   result |-> IF timeout.fired THEN [result EXCEPT !.needs_redraw = TRUE]
              ELSE result]

tick_after_drain(drained, thread_id, config) ==
  tick_result(maybe_flush_timeout(drained.s, config, thread_id), drained.result)

\* The tick's result when the deadline was looked at before the channel.
drain_after_timeout(timeout, drained) ==
  [s |-> drained.s,
   result |-> IF timeout.fired THEN [drained.result EXCEPT !.needs_redraw = TRUE]
              ELSE drained.result]

\* A tick that looks at the deadline before it drains the channel.
on_draw_tick_deadline_first(s, thread_id, config) ==
  IF ~s.enabled THEN [s |-> s, result |-> NoResult]
  ELSE drain_after_timeout(
         maybe_flush_timeout(s, config, thread_id),
         drain_body_translation_results(
           maybe_flush_timeout(s, config, thread_id).s, thread_id, config))

on_draw_tick(s, thread_id, config) ==
  IF ~s.enabled THEN [s |-> s, result |-> NoResult]
  ELSE tick_after_drain(drain_body_translation_results(s, thread_id, config),
                        thread_id, config)

\* Returns the new state and the header to display.
maybe_status_header_from_reasoning_buffer(s, reasoning_buffer) ==
  LET header == extract_first_bold(reasoning_buffer)
  IN  IF ~IsSome(header) THEN [s |-> s, header |-> None]
      ELSE
        LET translated == CacheGet(s.title_translation_cache, Unwrap(header))
        IN  [s |-> [s EXCEPT !.current_reasoning_title_raw = header],
             header |-> IF IsSome(translated)
                          THEN Some(format_bilingual_title(Unwrap(header),
                                                           Unwrap(translated)))
                          ELSE header]

\* -------------------------------------------------------------- actions
ConfigOptions == {None} \cup {Some(c) : c \in Configs}
ThreadOptions == {None} \cup {Some(th) : th \in ThreadIds}
\* What full_markdown_for_translation gives for the cells the host inserts.
CellMarkdowns == {None, Some(<<"*", "*", "P", "*", "*", "b">>)}

\* Streaming reasoning buffers shown in the status header.
ReasoningBuffers ==
  { <<"*", "*", "P", "*", "*">>,           \* title P
    <<"*", "*", "R", "*", "*">>,           \* title R, never dispatched
    <<"b">> }                              \* no title yet

HostCalls == {i \in DOMAIN history : history[i].ev \in {"request", "translate"}}
NextUnitId == Cardinality(HostCalls) + 1

\* ------------------------------------------------ external command runner
MAX_TRANSLATION_STDOUT_BYTES == 4 * 1024 * 1024
MAX_TRANSLATION_STDERR_BYTES == 1024 * 1024

\* The size of the buffer one read fills.
ChunkBytes == 8192

\* Timeouts of the configuration, in milliseconds.
MaxTimeout == 2
Timeouts == 1..MaxTimeout

\* Result<CommandOutput, TranslationError> as one record: kind names the
\* variant, stream and n carry its fields (a byte count, a limit, the
\* timeout or the exit code).
Outcome(kind, stream, n) == [kind |-> kind, stream |-> stream, n |-> n]
CommandOutput(stdout) == Outcome("Ok", "", stdout)
EmptyCommand == Outcome("EmptyCommand", "", 0)
SpawnError == Outcome("Spawn", "", 0)
WriteStdin == Outcome("WriteStdin", "", 0)
ReadOutput == Outcome("ReadOutput", "", 0)
OutputTooLarge(stream, limit_bytes) == Outcome("OutputTooLarge", stream, limit_bytes)
Timeout(timeout_ms) == Outcome("Timeout", "", timeout_ms)
NonZeroExit(code) == Outcome("NonZeroExit", "", code)

\* What the program does once spawned: whether it takes the request from its
\* stdin, lets the write wait (from the first byte, or once the request
\* has filled the pipe), or has its stdin closed; how many bytes it
\* writes to each stream; whether it exits by itself and with which code.
\* A program that cannot be spawned is the behaviour with spawns = FALSE.
StdinBehaviours == {"accepts", "blocks", "blocks_after_request", "closed"}
StdoutSizes == {0, 1, MAX_TRANSLATION_STDOUT_BYTES, MAX_TRANSLATION_STDOUT_BYTES + 1}
StderrSizes == {0, MAX_TRANSLATION_STDERR_BYTES, MAX_TRANSLATION_STDERR_BYTES + 1}
ExitCodes == {0, 1}
Programs ==
  [spawns : BOOLEAN, stdin : StdinBehaviours, stdout : StdoutSizes,
   stderr : StderrSizes, exits : {None} \cup {Some(code) : code \in ExitCodes}]

\* A drain task that has not been spawned.  A task is none, running, ok
\* (Ok(buf)), too_large, read_error or aborted; buf counts the bytes it holds.
NoTask == [state |-> "none", buf |-> 0, stream |-> "", limit_bytes |-> 0]

\* run_translation_command before it is called.
NotCalled ==
  [pc |-> "not_called", timeout |-> 0, clock |-> 0, program |-> None,
   request |-> None, spawned |-> 0, child |-> "none", code |-> 0,
   awaited |-> FALSE,
   exited_at |-> None, written |-> [stdout |-> 0, stderr |-> 0],
   stdout_task |-> NoTask, stderr_task |-> NoTask, result |-> None,
   output |-> None,
   stdin |-> [state |-> "none", sent |-> <<>>]]

\* read_to_end_limited as far as it gets without waiting: buf bytes are held,
\* `available` bytes are in the pipe, and `closed` says that the write end is
\* closed, so that the read after the last byte returns 0.  Each read fills
\* at most one chunk; the k-th read fails the call when the bytes held after
\* it would pass limit_bytes.
reads_of(available) == (available + ChunkBytes - 1) \div ChunkBytes

held_after(buf, available, k) ==
  buf + (IF k * ChunkBytes < available THEN k * ChunkBytes ELSE available)

\* A drain with no ceiling.
read_to_end(buf, available, closed, stream, limit_bytes) ==
  [state |-> IF closed THEN "ok" ELSE "running", buf |-> buf + available,
   stream |-> stream, limit_bytes |-> limit_bytes]

read_to_end_limited(buf, available, closed, stream, limit_bytes) ==
  IF \E k \in 1..reads_of(available) : held_after(buf, available, k) > limit_bytes
    THEN [state |-> "too_large", buf |-> buf,
          stream |-> stream, limit_bytes |-> limit_bytes]
    ELSE [state |-> IF closed THEN "ok" ELSE "running", buf |-> buf + available,
          stream |-> stream, limit_bytes |-> limit_bytes]

\* JoinHandle::abort: a task that has finished keeps its result.
abort(task) == IF task.state = "running" THEN [task EXCEPT !.state = "aborted"] ELSE task

\* A handle whose drop leaves the child alone.
drop_child_leaving_it(r) == r

\* kill_on_drop(true): the child handle is dropped with the child running.
drop_child(r) == [r EXCEPT !.child = IF @ = "running" THEN "killed" ELSE @]

\* child.kill().await; child.wait().await
kill_and_wait(r) ==
  [r EXCEPT !.child = IF @ = "running" THEN "killed" ELSE @, !.awaited = TRUE]

\* A return that spawns the program again after a failure.
return_respawning(r, result) ==
  IF result.kind \notin {"Ok", "EmptyCommand", "Spawn"} /\ r.spawned = 1
    THEN [drop_child(r) EXCEPT !.pc = "write_request", !.clock = 0,
                               !.spawned = @ + 1, !.child = "running",
                               !.awaited = FALSE, !.exited_at = None,
                               !.written = [stdout |-> 0, stderr |-> 0],
                               !.stdout_task = NoTask, !.stderr_task = NoTask,
                               !.stdin = [state |-> "open", sent |-> <<>>]]
    ELSE [drop_child(r) EXCEPT !.pc = "done", !.result = Some(result),
                               !.stdin.state = IF @ = "open" THEN "closed" ELSE @]

\* return: the function's locals, the child handle and the stdin handle among
\* them, are dropped.
return(r, result) ==
  [drop_child(r) EXCEPT !.pc = "done", !.result = Some(result),
                        !.stdin.state = IF @ = "open" THEN "closed" ELSE @]

\* The call up to its first await: the program is looked up and spawned with
\* three pipes, and the deadline is set.
run_translation_command(r, timeout, command_is_empty, program) ==
  IF command_is_empty THEN return(r, EmptyCommand)
  ELSE IF ~program.spawns THEN return(r, SpawnError)
  ELSE [r EXCEPT !.pc = "write_request", !.timeout = timeout, !.clock = 0,
                 !.program = Some(program), !.spawned = @ + 1,
                 !.child = "running",
                 !.stdin = [state |-> "open", sent |-> <<>>]]

\* What a write to the child's stdin meets: a broken pipe once the child is
\* gone, else what the program does with its stdin.
stdin_of(r) ==
  IF r.child # "running" THEN "closed"
  ELSE IF Unwrap(r.program).stdin = "blocks_after_request"
    THEN IF r.stdin.sent = <<>> THEN "accepts" ELSE "blocks"
  ELSE Unwrap(r.program).stdin

\* A write to stdin that does not race the deadline.
write_stdin_without_deadline(r, written) ==
  IF stdin_of(r) = "accepts" THEN written
  ELSE IF stdin_of(r) = "closed" THEN return(r, WriteStdin)
  ELSE r

\* timeout_at(deadline, stdin.write_all(..)): the write is polled first; the
\* deadline counts when the write cannot go on.
write_stdin(r, written) ==
  IF stdin_of(r) = "accepts" THEN written
  ELSE IF stdin_of(r) = "closed" THEN return(r, WriteStdin)
  ELSE IF r.clock >= r.timeout
    THEN return(kill_and_wait(r), Timeout(r.timeout))
  ELSE r

\* stdin.write_all(bytes) that went through: the child's stdin has the bytes.
write_all(r, bytes) == [r EXCEPT !.stdin.sent = Append(@, bytes)]

\* The drains are spawned with stdin still open.
spawn_drains_keeping_stdin(r) ==
  [r EXCEPT !.pc = "wait_child",
            !.stdout_task = [state |-> "running", buf |-> 0, stream |-> "stdout",
                             limit_bytes |-> MAX_TRANSLATION_STDOUT_BYTES],
            !.stderr_task = [state |-> "running", buf |-> 0, stream |-> "stderr",
                             limit_bytes |-> MAX_TRANSLATION_STDERR_BYTES]]

\* After the newline: stdin is dropped and the two drains are spawned.
spawn_drains(r) ==
  [r EXCEPT !.pc = "wait_child",
            !.stdin.state = "closed",
            !.stdout_task = [state |-> "running", buf |-> 0, stream |-> "stdout",
                             limit_bytes |-> MAX_TRANSLATION_STDOUT_BYTES],
            !.stderr_task = [state |-> "running", buf |-> 0, stream |-> "stderr",
                             limit_bytes |-> MAX_TRANSLATION_STDERR_BYTES]]

\* The request is written, then the newline, each under the deadline.
write_request(r) ==
  write_stdin(r, [write_all(r, "request_json") EXCEPT !.pc = "write_newline"])

write_newline(r) == write_stdin(r, spawn_drains(write_all(r, "\n")))

\* timeout_at(deadline, child.wait()); wait_ok says whether wait() gives the
\* status or an I/O error.
wait_child(r, wait_ok) ==
  IF r.child # "running"
    THEN IF wait_ok THEN [r EXCEPT !.pc = "join_stdout", !.awaited = TRUE]
         ELSE return(r, ReadOutput)
  ELSE IF r.clock >= r.timeout
    THEN return([kill_and_wait(r) EXCEPT !.stdout_task = abort(@),
                                         !.stderr_task = abort(@)],
                Timeout(r.timeout))
  ELSE r

\* The error a finished drain hands over.
drain_error(task) ==
  IF task.state = "too_large" THEN OutputTooLarge(task.stream, task.limit_bytes)
  ELSE ReadOutput

\* timeout_at(deadline, stdout_task): the task ran read_to_end_limited and
\* is never cancelled before this join, so the join itself does not fail.
join_stdout(r) ==
  IF r.stdout_task.state = "ok" THEN [r EXCEPT !.pc = "join_stderr"]
  ELSE IF r.stdout_task.state \in {"too_large", "read_error"}
    THEN return([r EXCEPT !.stderr_task = abort(@)], drain_error(r.stdout_task))
  ELSE IF r.clock >= r.timeout
    THEN return([r EXCEPT !.stderr_task = abort(@)], Timeout(r.timeout))
  ELSE r

\* A join of stderr that looks at the exit status first.
join_stderr_status_first(r) ==
  IF r.stderr_task.state = "running"
    THEN IF r.clock >= r.timeout THEN return(r, Timeout(r.timeout)) ELSE r
  ELSE IF r.code # 0 THEN return(r, NonZeroExit(r.code))
  ELSE IF r.stderr_task.state = "ok" THEN return(r, CommandOutput(r.stdout_task.buf))
  ELSE return(r, drain_error(r.stderr_task))

\* timeout_at(deadline, stderr_task), then the exit status.
join_stderr(r) ==
  IF r.stderr_task.state = "ok"
    THEN IF r.code # 0 THEN return(r, NonZeroExit(r.code))
         ELSE return(r, CommandOutput(r.stdout_task.buf))
  ELSE IF r.stderr_task.state \in {"too_large", "read_error"}
    THEN return(r, drain_error(r.stderr_task))
  ELSE IF r.clock >= r.timeout THEN return(r, Timeout(r.timeout))
  ELSE r

\* ------------------------------------------------- previews and messages
\* String::from_utf8_lossy on the bytes told apart here: an ASCII byte is its
\* character, and 0xFF, which no UTF-8 sequence contains, becomes U+FFFD.
from_utf8_lossy(bytes) ==
  [i \in DOMAIN bytes |-> IF bytes[i] = "0xFF" THEN "U+FFFD" ELSE bytes[i]]

MAX_CHARS == 300

\* A preview that is cut without a mark.
preview_bytes_unmarked(bytes) ==
  SubSeq(trim(from_utf8_lossy(bytes)), 1,
         IF Len(trim(from_utf8_lossy(bytes))) < MAX_CHARS
           THEN Len(trim(from_utf8_lossy(bytes))) ELSE MAX_CHARS)

\* The first MAX_CHARS characters of the trimmed text, and the ellipsis when
\* a character is left after them.
preview_of(trimmed) ==
  IF Len(trimmed) <= MAX_CHARS THEN trimmed
  ELSE SubSeq(trimmed, 1, MAX_CHARS) \o <<"U+2026">>

preview_bytes(bytes) == preview_of(trim(from_utf8_lossy(bytes)))

\* The failures made above the byte counts of the runner.
NonZeroExitError(code, stderr, stdout) ==
  [kind |-> "NonZeroExit", code |-> code,
   stderr_preview |-> preview_bytes(stderr),
   stdout_preview |-> preview_bytes(stdout)]
InvalidJson(stdout) == [kind |-> "InvalidJson", stdout_preview |-> preview_bytes(stdout)]
SchemaVersionMismatch(expected, actual) ==
  [kind |-> "SchemaVersionMismatch", expected |-> expected, actual |-> actual]
EmptyTranslation == [kind |-> "EmptyTranslation"]
Translated(text) == [kind |-> "Translated", text |-> text]

\* Display of a TranslationError (thiserror's #[error(..)] strings).
to_string(err) ==
  IF err.kind = "EmptyCommand" THEN Chars("translation command is empty")
  ELSE IF err.kind = "Spawn" THEN Chars("failed to spawn translation command: ")
  ELSE IF err.kind = "WriteStdin" THEN Chars("failed to write translation stdin: ")
  ELSE IF err.kind = "ReadOutput" THEN Chars("failed to read translation output: ")
  ELSE IF err.kind = "OutputTooLarge"
    THEN Chars("translator output too large (") \o Chars(err.stream)
           \o Chars(" exceeded ") \o Chars(ToString(err.n)) \o Chars(" bytes)")
  ELSE IF err.kind = "Timeout"
    THEN Chars("translator timed out (") \o Chars(ToString(err.n)) \o Chars("ms)")
  ELSE IF err.kind = "NonZeroExit"
    THEN Chars("translator exited non-zero (code=Some(") \o Chars(ToString(err.code))
           \o Chars(")): stderr=") \o err.stderr_preview
           \o Chars(" stdout=") \o err.stdout_preview
  ELSE IF err.kind = "InvalidJson"
    THEN Chars("translator output is not valid JSON: ") \o err.stdout_preview
  ELSE IF err.kind = "SchemaVersionMismatch"
    THEN Chars("translator returned schema_version mismatch: expected=")
           \o Chars(ToString(err.expected)) \o Chars(" actual=")
           \o Chars(ToString(err.actual))
  ELSE Chars("translator returned an empty translation")

\* ------------------------------------------------ the translator's answer
TRANSLATION_SCHEMA_VERSION == 1

\* serde_json::from_slice::<TranslationResponse>, for documents that are one
\* object whose values are strings and unsigned numbers: a member named
\* schema_version is a u32, a member named text is a string, a member of
\* another name is skipped, a member given twice or missing is an error, and
\* so is anything but whitespace after the object.
ParseError == [ok |-> FALSE, value |-> <<>>, next |-> 0]
Parsed(value, next) == [ok |-> TRUE, value |-> value, next |-> next]

IsDigit(c) == \E d \in 0..9 : SubSeq("0123456789", d + 1, d + 1) = c
digit_of(c) == CHOOSE d \in 0..9 : SubSeq("0123456789", d + 1, d + 1) = c

RECURSIVE skip_whitespace(_, _)
skip_whitespace(s, i) ==
  IF i <= Len(s) /\ IsWhitespace(s[i]) THEN skip_whitespace(s, i + 1) ELSE i

At(s, i, c) == i <= Len(s) /\ s[i] = c

RECURSIVE parse_digits(_, _, _)
parse_digits(s, i, acc) ==
  IF i <= Len(s) /\ IsDigit(s[i])
    THEN parse_digits(s, i + 1, acc * 10 + digit_of(s[i]))
  ELSE Parsed(acc, i)

\* An unsigned integer without a sign, a fraction or a leading zero.  The
\* numbers read here have at most nine digits, so each of them is a u32.
parse_number(s, i) ==
  IF ~(i <= Len(s) /\ IsDigit(s[i])) THEN ParseError
  ELSE IF s[i] = "0" /\ i + 1 <= Len(s) /\ IsDigit(s[i + 1]) THEN ParseError
  ELSE IF At(s, parse_digits(s, i, 0).next, ".") THEN ParseError
  ELSE parse_digits(s, i, 0)

\* The character an escape stands for; <<>> for an escape left out here.
unescape(c) ==
  IF c \in {"\"", "\\", "/"} THEN <<c>>
  ELSE IF c = "n" THEN <<"\n">>
  ELSE IF c = "t" THEN <<"\t">>
  ELSE IF c = "r" THEN <<"\r">>
  ELSE <<>>

\* The characters after an opening quote up to the closing one.
RECURSIVE parse_str(_, _, _)
parse_str(s, i, acc) ==
  IF i > Len(s) THEN ParseError
  ELSE IF s[i] = "\"" THEN Parsed(acc, i + 1)
  ELSE IF s[i] \in {"\n", "\t", "\r"} THEN ParseError
  ELSE IF s[i] = "\\"
    THEN IF i + 1 > Len(s) \/ unescape(s[i + 1]) = <<>> THEN ParseError
         ELSE parse_str(s, i + 2, acc \o unescape(s[i + 1]))
  ELSE parse_str(s, i + 1, Append(acc, s[i]))

parse_string(s, i) == IF At(s, i, "\"") THEN parse_str(s, i + 1, <<>>) ELSE ParseError

NoFields == [schema_version |-> None, text |-> None]

\* One member whose name has been read and whose value starts at i.
parse_member(s, key, i, fields) ==
  IF key = Chars("schema_version")
    THEN IF fields.schema_version # None \/ ~parse_number(s, i).ok THEN ParseError
         ELSE Parsed([fields EXCEPT !.schema_version = Some(parse_number(s, i).value)],
                     parse_number(s, i).next)
  ELSE IF key = Chars("text")
    THEN IF fields.text # None \/ ~parse_string(s, i).ok THEN ParseError
         ELSE Parsed([fields EXCEPT !.text = Some(parse_string(s, i).value)],
                     parse_string(s, i).next)
  ELSE IF parse_string(s, i).ok THEN Parsed(fields, parse_string(s, i).next)
  ELSE IF parse_number(s, i).ok THEN Parsed(fields, parse_number(s, i).next)
  ELSE ParseError

\* The members of the object from the name at i on, up to its closing brace.
RECURSIVE parse_members(_, _, _)
after_member(s, member) ==
  IF ~member.ok THEN ParseError
  ELSE IF At(s, skip_whitespace(s, member.next), "}")
    THEN Parsed(member.value, skip_whitespace(s, member.next) + 1)
  ELSE IF At(s, skip_whitespace(s, member.next), ",")
    THEN parse_members(s, skip_whitespace(s, skip_whitespace(s, member.next) + 1),
                       member.value)
  ELSE ParseError

after_key(s, key, fields) ==
  IF ~key.ok \/ ~At(s, skip_whitespace(s, key.next), ":") THEN ParseError
  ELSE after_member(s, parse_member(s, key.value,
                                    skip_whitespace(s, skip_whitespace(s, key.next) + 1),
                                    fields))

parse_members(s, i, fields) == after_key(s, parse_string(s, i), fields)

parse_object(s, i) ==
  IF ~At(s, i, "{") THEN ParseError
  ELSE IF At(s, skip_whitespace(s, i + 1), "}")
    THEN Parsed(NoFields, skip_whitespace(s, i + 1) + 1)
  ELSE parse_members(s, skip_whitespace(s, i + 1), NoFields)

\* Some(TranslationResponse), or None for a serde_json error.
response_of(s, object) ==
  IF /\ object.ok
     /\ skip_whitespace(s, object.next) = Len(s) + 1
     /\ object.value.schema_version # None
     /\ object.value.text # None
    THEN Some([schema_version |-> Unwrap(object.value.schema_version),
               text |-> Unwrap(object.value.text)])
  ELSE None

from_slice(bytes) ==
  IF \E i \in DOMAIN bytes : bytes[i] = "0xFF" THEN None
  ELSE response_of(bytes, parse_object(bytes, skip_whitespace(bytes, 1)))

\* A validation that hands the text on as it was received.
validate_untrimmed(stdout) ==
  IF from_slice(stdout) = None THEN InvalidJson(stdout)
  ELSE IF Unwrap(from_slice(stdout)).schema_version # TRANSLATION_SCHEMA_VERSION
    THEN SchemaVersionMismatch(TRANSLATION_SCHEMA_VERSION,
                               Unwrap(from_slice(stdout)).schema_version)
  ELSE IF trim(Unwrap(from_slice(stdout)).text) = <<>> THEN EmptyTranslation
  ELSE Translated(Unwrap(from_slice(stdout)).text)

\* A validation that looks at the text before the version.
validate_text_first(stdout) ==
  IF from_slice(stdout) = None THEN InvalidJson(stdout)
  ELSE IF trim(Unwrap(from_slice(stdout)).text) = <<>> THEN EmptyTranslation
  ELSE IF Unwrap(from_slice(stdout)).schema_version # TRANSLATION_SCHEMA_VERSION
    THEN SchemaVersionMismatch(TRANSLATION_SCHEMA_VERSION,
                               Unwrap(from_slice(stdout)).schema_version)
  ELSE Translated(trim(Unwrap(from_slice(stdout)).text))

\* What translate_text makes of the stdout of a command that exited with 0.
validate(stdout) ==
  IF from_slice(stdout) = None THEN InvalidJson(stdout)
  ELSE IF Unwrap(from_slice(stdout)).schema_version # TRANSLATION_SCHEMA_VERSION
    THEN SchemaVersionMismatch(TRANSLATION_SCHEMA_VERSION,
                               Unwrap(from_slice(stdout)).schema_version)
  ELSE IF trim(Unwrap(from_slice(stdout)).text) = <<>> THEN EmptyTranslation
  ELSE Translated(trim(Unwrap(from_slice(stdout)).text))

\* The bytes a drain holds: the first buf bytes the program writes to the
\* stream.
held(r, stream) ==
  SubSeq(IF stream = "stdout" THEN Unwrap(r.program).stdout_bytes
         ELSE Unwrap(r.program).stderr_bytes,
         1, IF stream = "stdout" THEN r.stdout_task.buf ELSE r.stderr_task.buf)

\* What translate_text returns once run_translation_command has returned: a
\* failure of the command as it is, NonZeroExit with the previews of what
\* the drains hold, and an output validated.
translate_output(r) ==
  IF Unwrap(r.result).kind = "Ok" THEN validate(held(r, "stdout"))
  ELSE IF Unwrap(r.result).kind = "NonZeroExit"
    THEN NonZeroExitError(Unwrap(r.result).n, held(r, "stderr"), held(r, "stdout"))
  ELSE Unwrap(r.result)

translate_return(r) == [r EXCEPT !.pc = "returned", !.output = Some(translate_output(r))]

\* ------------------------------------------------------- warn-once state
\* The threads of the process that load a configuration.
Callers == {"c1", "c2", "c3"}

NotWarning == [pc |-> "idle", old_path |-> "", poisoned |-> FALSE]

\* WARNED and its lock before the first call, no configuration resolved.
\* warnings is the log of deprecation warnings, returned the calls of
\* warn_deprecated_translation_config_once that have returned.
NotResolved ==
  [WARNED |-> {}, lock |-> None, poisoned |-> FALSE,
   calls |-> [c \in Callers |-> NotWarning],
   warnings |-> <<>>, returned |-> {},
   sources |-> None, resolved |-> None]

\* A lock that gives the call up when it is poisoned.
lock_failing_when_poisoned(w, c) ==
  IF w.lock # None THEN w
  ELSE IF w.poisoned
    THEN [w EXCEPT !.calls[c] = NotWarning,
                   !.returned = @ \cup {[old_path |-> w.calls[c].old_path,
                                         poisoned |-> TRUE]}]
  ELSE [w EXCEPT !.lock = Some(c), !.calls[c].pc = "locked"]

\* warned.lock(): the caller waits while another holds the lock; a poisoned
\* lock is taken as well, with the set as the panicking thread left it.
lock(w, c) ==
  IF w.lock # None THEN w
  ELSE [w EXCEPT !.lock = Some(c), !.calls[c].pc = "locked",
                 !.calls[c].poisoned = w.poisoned]

\* warned.insert(old_path) and the warning when the key is new; the guard
\* is dropped as the function returns.
insert_and_warn(w, c) ==
  [w EXCEPT !.WARNED = @ \cup {w.calls[c].old_path},
            !.warnings = IF w.calls[c].old_path \in w.WARNED THEN @
                         ELSE Append(@, w.calls[c].old_path),
            !.lock = None,
            !.calls[c] = NotWarning,
            !.returned = @ \cup {[old_path |-> w.calls[c].old_path,
                                  poisoned |-> w.calls[c].poisoned]}]

\* The thread panics with the guard alive, before the key is inserted or
\* in the warning after it: the lock is released poisoned and the thread
\* is gone.
panic(w, c, inserted) ==
  [w EXCEPT !.WARNED = IF inserted THEN @ \cup {w.calls[c].old_path} ELSE @,
            !.lock = None, !.poisoned = TRUE,
            !.calls[c].pc = "panicked"]

\* ------------------------------------------- resolving the configuration
\* The defaults of config::types, as names: their values play no part.
DEFAULT_AGENT_REASONING_TRANSLATION_TIMEOUT_MS ==
  "DEFAULT_AGENT_REASONING_TRANSLATION_TIMEOUT_MS"
DEFAULT_AGENT_REASONING_TRANSLATION_UI_MAX_WAIT_MS ==
  "DEFAULT_AGENT_REASONING_TRANSLATION_UI_MAX_WAIT_MS"

\* The results of the resolution.  The backquotes of the messages are
\* written as quotes.
Ok(value) == [ok |-> TRUE, value |-> value]
InvalidData(message) == [ok |-> FALSE, kind |-> "InvalidData", message |-> message]

\* AgentReasoningTranslationSettingsToml
AgentReasoningTranslationSettingsToml(command, timeout_ms, ui_max_wait_ms) ==
  [command |-> command, timeout_ms |-> timeout_ms, ui_max_wait_ms |-> ui_max_wait_ms]

\* A TomlValue is [type |-> "string"] or a table with or without the key
\* agent_reasoning, whose value has the three settings and maybe a field
\* that AgentReasoningTranslationPluginToml does not know.
plugins_translation_has_agent_reasoning(plugins_translation) ==
  /\ plugins_translation # None
  /\ Unwrap(plugins_translation).type = "table"
  /\ Unwrap(plugins_translation).agent_reasoning # None

\* translation.agent_reasoning of the legacy section, as settings.
legacy_agent_reasoning(legacy_translation) ==
  IF legacy_translation = None THEN None
  ELSE Unwrap(legacy_translation).agent_reasoning

parse_agent_reasoning_translation_from_plugins_translation(scope, plugins_translation) ==
  IF plugins_translation = None THEN Ok(None)
  ELSE IF Unwrap(plugins_translation).type # "table"
    THEN InvalidData("failed to parse '[" \o scope \o "]': expected table")
  ELSE IF Unwrap(plugins_translation).agent_reasoning = None THEN Ok(None)
  ELSE IF Unwrap(Unwrap(plugins_translation).agent_reasoning).unknown_field
    THEN InvalidData("failed to parse '[" \o scope
                       \o ".agent_reasoning]': unknown field 'unknown_field'")
  ELSE Ok(Some(AgentReasoningTranslationSettingsToml(
                 Unwrap(Unwrap(plugins_translation).agent_reasoning).command,
                 Unwrap(Unwrap(plugins_translation).agent_reasoning).timeout_ms,
                 Unwrap(Unwrap(plugins_translation).agent_reasoning).ui_max_wait_ms)))

\* One call of warn_deprecated_translation_config_once by the thread c,
\* from its lock to its return.
warn_deprecated_translation_config_once(w, c, old_path) ==
  insert_and_warn(
    lock([w EXCEPT !.calls[c] = [pc |-> "lock", old_path |-> old_path,
                                 poisoned |-> FALSE]], c),
    c)

or(new, old) == IF new # None THEN new ELSE old

\* A setting taken from the global scope before the profile.
setting_global_first(profile, global, name) ==
  IF global # None /\ Unwrap(global)[name] # None THEN Unwrap(global)[name]
  ELSE IF profile # None THEN Unwrap(profile)[name]
  ELSE None

\* profile.and_then(|s| s.<name>).or_else(|| global.and_then(|s| s.<name>))
setting(profile, global, name) ==
  IF profile # None /\ Unwrap(profile)[name] # None THEN Unwrap(profile)[name]
  ELSE IF global # None THEN Unwrap(global)[name]
  ELSE None

unwrap_or(option, default) == IF option # None THEN Unwrap(option) ELSE default

\* The last part of the function: the scopes merged into the configuration.
merged(global, profile) ==
  IF /\ setting(profile, global, "command") # None
     /\ Unwrap(setting(profile, global, "command")) # <<>>
    THEN Some([command |-> Unwrap(setting(profile, global, "command")),
               timeout |-> unwrap_or(setting(profile, global, "timeout_ms"),
                                     DEFAULT_AGENT_REASONING_TRANSLATION_TIMEOUT_MS),
               ui_max_wait |-> unwrap_or(setting(profile, global, "ui_max_wait_ms"),
                                         DEFAULT_AGENT_REASONING_TRANSLATION_UI_MAX_WAIT_MS)])
  ELSE None

profile_scope(sources) ==
  IF sources.active_profile_name = None THEN "profiles.<unknown>.plugins.translation"
  ELSE "profiles." \o Unwrap(sources.active_profile_name) \o ".plugins.translation"

\* From the parse of the profile section on; global is the global scope.
resolve_profile(w, c, sources, global, profile_new, profile_old) ==
  IF ~profile_new.ok THEN [w EXCEPT !.resolved = Some(profile_new)]
  ELSE [(IF /\ profile_new.value = None
            /\ profile_old # None
            /\ sources.active_profile_name # None
           THEN warn_deprecated_translation_config_once(
                  w, c, "[profiles." \o Unwrap(sources.active_profile_name)
                          \o ".translation.agent_reasoning]")
         ELSE w)
        EXCEPT !.resolved = Some(Ok(merged(global, or(profile_new.value, profile_old))))]

\* From the parse of the global section on.
resolve_global(w, c, sources, global_new, global_old) ==
  IF ~global_new.ok THEN [w EXCEPT !.resolved = Some(global_new)]
  ELSE resolve_profile(
         IF global_new.value = None /\ global_old # None
           THEN warn_deprecated_translation_config_once(
                  w, c, "[translation.agent_reasoning]")
         ELSE w,
         c, sources, or(global_new.value, global_old),
         parse_agent_reasoning_translation_from_plugins_translation(
           profile_scope(sources), sources.profile_plugins_translation),
         legacy_agent_reasoning(sources.profile_legacy_translation))

resolve_agent_reasoning_translation_config(w, c, sources) ==
  IF /\ plugins_translation_has_agent_reasoning(sources.global_plugins_translation)
     /\ legacy_agent_reasoning(sources.global_legacy_translation) # None
    THEN [w EXCEPT !.resolved = Some(InvalidData(
            "cannot set both '[plugins.translation.agent_reasoning]' and '[translation.agent_reasoning]' in the same scope; migrate to the new path and remove the legacy section."))]
  ELSE IF /\ plugins_translation_has_agent_reasoning(sources.profile_plugins_translation)
          /\ legacy_agent_reasoning(sources.profile_legacy_translation) # None
    THEN IF sources.active_profile_name = None
           THEN [w EXCEPT !.resolved = Some(InvalidData(
                   "cannot set both legacy and new translation configs in the same profile scope"))]
         ELSE [w EXCEPT !.resolved = Some(InvalidData(
                 "cannot set both '[profiles." \o Unwrap(sources.active_profile_name)
                   \o ".plugins.translation.agent_reasoning]' and '[profiles."
                   \o Unwrap(sources.active_profile_name)
                   \o ".translation.agent_reasoning]' in the same scope; migrate to the new path and remove the legacy section."))]
  ELSE resolve_global(
         w, c, sources,
         parse_agent_reasoning_translation_from_plugins_translation(
           "plugins.translation", sources.global_plugins_translation),
         legacy_agent_reasoning(sources.global_legacy_translation))

\* AgentReasoningTranslationOrchestrator::new(enabled)
\* ------------------------------------------------- one drain, read by read
\* read_to_end_limited before it is called.  pipe counts the bytes of the
\* stream that the reader has not taken yet, buf the bytes collected, taken
\* the bytes the reads have returned, n what the last read returned.
NotReading ==
  [pc |-> "not_called", stream |-> "", limit_bytes |-> 0, pipe |-> 0,
   buf |-> 0, taken |-> 0, n |-> 0, result |-> None]

\* The call: buf is empty.
begin_read_to_end_limited(stream, limit_bytes, total) ==
  [pc |-> "loop", stream |-> stream, limit_bytes |-> limit_bytes, pipe |-> total,
   buf |-> 0, taken |-> 0, n |-> 0, result |-> None]

\* reader.read(&mut chunk) on a stream whose writer has written everything
\* and closed: 0 at the end, else at most what the chunk takes; a short read
\* returns half of that.
read(rd, short) ==
  LET most == IF rd.pipe < ChunkBytes THEN rd.pipe ELSE ChunkBytes
  IN  IF short /\ most > 1 THEN most \div 2 ELSE most

\* One turn of the loop that fails when the ceiling is reached.
loop_failing_at_ceiling(rd, read_ok, short) ==
  IF ~read_ok THEN [rd EXCEPT !.pc = "done", !.result = Some(ReadOutput)]
  ELSE IF read(rd, short) = 0
    THEN [rd EXCEPT !.pc = "done", !.n = 0, !.result = Some(CommandOutput(rd.buf))]
  ELSE IF rd.buf + read(rd, short) >= rd.limit_bytes
    THEN [rd EXCEPT !.pc = "done", !.n = read(rd, short), !.pipe = @ - read(rd, short),
                    !.taken = @ + read(rd, short),
                    !.result = Some(OutputTooLarge(rd.stream, rd.limit_bytes))]
  ELSE [rd EXCEPT !.n = read(rd, short), !.pipe = @ - read(rd, short), !.taken = @ + read(rd, short),
                  !.buf = @ + read(rd, short)]

\* One turn of the loop: a read, the check against the ceiling, the bytes
\* appended.  Byte counts stay far below usize::MAX, where saturating_add
\* would matter.
loop(rd, read_ok, short) ==
  IF ~read_ok THEN [rd EXCEPT !.pc = "done", !.result = Some(ReadOutput)]
  ELSE IF read(rd, short) = 0
    THEN [rd EXCEPT !.pc = "done", !.n = 0, !.result = Some(CommandOutput(rd.buf))]
  ELSE IF rd.buf + read(rd, short) > rd.limit_bytes
    THEN [rd EXCEPT !.pc = "done", !.n = read(rd, short), !.pipe = @ - read(rd, short),
                    !.taken = @ + read(rd, short),
                    !.result = Some(OutputTooLarge(rd.stream, rd.limit_bytes))]
  ELSE [rd EXCEPT !.n = read(rd, short), !.pipe = @ - read(rd, short), !.taken = @ + read(rd, short),
                  !.buf = @ + read(rd, short)]

Init ==
  /\ enabled \in BOOLEAN
  /\ title_translation_cache = {}
  /\ current_reasoning_title_raw = None
  /\ body_translation_barrier = None
  /\ deferred_history_cells = <<>>
  /\ body_translation_seq = 0
  /\ body_translation_results = <<>>
  /\ app_events = <<>>
  /\ tasks = {}
  /\ now = 0
  /\ active_thread_id \in ThreadOptions
  /\ env_max_wait \in EnvValues
  /\ posted = <<>>
  /\ history = <<>>
  /\ runner = NotCalled
  /\ resolver = NotResolved
  /\ reader = NotReading

\* The orchestrator after a call that took it to s.
Becomes(s) ==
  /\ title_translation_cache' = s.title_translation_cache
  /\ current_reasoning_title_raw' = s.current_reasoning_title_raw
  /\ body_translation_barrier' = s.body_translation_barrier
  /\ deferred_history_cells' = s.deferred_history_cells
  /\ body_translation_seq' = s.body_translation_seq
  /\ body_translation_results' = s.body_translation_results
  /\ app_events' = s.app_events
  /\ tasks' = s.tasks
  /\ posted' = s.posted
  /\ history' = s.history
  /\ UNCHANGED <<enabled, now, active_thread_id, env_max_wait, runner,
                 resolver, reader>>

\* The host inserts a cell through emit_history_cell.
EmitHistoryCell(limit) ==
  /\ NextUnitId <= limit
  /\ \E md \in CellMarkdowns :
       Becomes(emit_history_cell(Log(Self, "request", NextUnitId),
                                 HostCell(NextUnitId, md)))

\* The host inserts a cell through emit_history_cell_with_translation_hook.
EmitHistoryCellWithTranslationHook(limit) ==
  /\ NextUnitId <= limit
  /\ \E md \in CellMarkdowns, config \in ConfigOptions :
       Becomes(emit_history_cell_with_translation_hook(
                 Log(Self, "request", NextUnitId), config, active_thread_id,
                 HostCell(NextUnitId, md)))

\* The host asks for a body translation directly.
MaybeTranslateReasoningBody(limit) ==
  /\ NextUnitId <= limit
  /\ \E md \in ReasoningTexts, config \in ConfigOptions :
       Becomes(maybe_translate_reasoning_body(
                 Log(Self, "translate", NextUnitId), config, active_thread_id, md))

\* A redraw tick of the UI loop.
OnDrawTick ==
  \E config \in ConfigOptions :
    Becomes(on_draw_tick(Self, active_thread_id, config).s)

\* The status header is derived from a streaming reasoning buffer.  The call
\* writes current_reasoning_title_raw only and takes no part in the barrier
\* protocol; Spec and SpecFlush leave it out, SpecTitle has it.
MaybeStatusHeaderFromReasoningBuffer ==
  \E buffer \in ReasoningBuffers :
    Becomes(maybe_status_header_from_reasoning_buffer(Self, buffer).s)

\* The message a task builds from the result of translate_text.
CompletionMessage(task, result) ==
  [request_id |-> task.request_id,
   thread_id |-> task.thread_id,
   title |-> task.title,
   translated |-> IF result.ok THEN Some(result.text) ELSE None,
   error |-> IF result.ok THEN None ELSE Some(result.text)]

TranslateResults ==
  {[ok |-> TRUE, text |-> x] : x \in TranslatedTexts}
    \cup {[ok |-> FALSE, text |-> e] : e \in ErrorTexts}

\* A task that ends without a message when translate_text failed.
TaskSend_dropping_errors(task, result) ==
  /\ body_translation_results' =
       IF result.ok
         THEN Append(body_translation_results, CompletionMessage(task, result))
         ELSE body_translation_results
  /\ tasks' = tasks \ {task}
  /\ posted' = [posted EXCEPT ![task.request_id + 1] = IF result.ok THEN @ + 1 ELSE @]

\* What a task does once translate_text has returned `result`: it sends its
\* one message on the completion channel and ends.
TaskSend(task, result) ==
  /\ body_translation_results' =
       Append(body_translation_results, CompletionMessage(task, result))
  /\ tasks' = tasks \ {task}
  /\ posted' = [posted EXCEPT ![task.request_id + 1] = @ + 1]

TaskComplete ==
  /\ \E task \in tasks, result \in TranslateResults : TaskSend(task, result)
  /\ UNCHANGED <<enabled, title_translation_cache, current_reasoning_title_raw,
                 body_translation_barrier, deferred_history_cells,
                 body_translation_seq, app_events, now, active_thread_id,
                 env_max_wait, history, runner,
                 resolver, reader>>

\* A switch of the active thread that cancels the tasks in flight.
SetActiveThread_cancelling ==
  /\ \E th \in ThreadOptions \ {None} :
       /\ th # active_thread_id
       /\ active_thread_id' = th
  /\ tasks' = {}
  /\ UNCHANGED <<enabled, title_translation_cache, current_reasoning_title_raw,
                 body_translation_barrier, deferred_history_cells,
                 body_translation_seq, body_translation_results, app_events,
                 now, env_max_wait, posted, history, runner,
                 resolver, reader>>

\* The host switches the active thread.  There is no thread only before the
\* first one is attached.
SetActiveThread ==
  /\ \E th \in ThreadOptions \ {None} :
       /\ th # active_thread_id
       /\ active_thread_id' = th
  /\ UNCHANGED <<enabled, title_translation_cache, current_reasoning_title_raw,
                 body_translation_barrier, deferred_history_cells,
                 body_translation_seq, body_translation_results, app_events,
                 tasks, now, env_max_wait, posted, history, runner,
                 resolver, reader>>

\* A millisecond passes.  The clock is read only to set a deadline and to
\* compare with the open barrier's deadline, so only the milliseconds up to
\* that deadline are told apart.
AdvanceTime ==
  /\ IsSome(body_translation_barrier)
  /\ now < Unwrap(body_translation_barrier).deadline
  /\ now' = now + 1
  /\ UNCHANGED <<enabled, title_translation_cache, current_reasoning_title_raw,
                 body_translation_barrier, deferred_history_cells,
                 body_translation_seq, body_translation_results, app_events,
                 tasks, active_thread_id, env_max_wait, posted, history, runner,
                 resolver, reader>>

\* The host interface of the barrier: insertions, direct dispatches, ticks,
\* task completions and thread switches.
Next ==
  \/ EmitHistoryCell(MaxCalls)
  \/ EmitHistoryCellWithTranslationHook(MaxCalls)
  \/ MaybeTranslateReasoningBody(MaxCalls)
  \/ OnDrawTick
  \/ TaskComplete
  \/ SetActiveThread
  \/ AdvanceTime

Spec == Init /\ [][Next]_vars

\* The insertion and flush protocol of one enabled orchestrator on one
\* thread: cells are inserted, translations complete or time out, ticks flush.
InitFlush ==
  /\ Init
  /\ enabled
  /\ env_max_wait = None
  /\ active_thread_id = Some("t1")

NextFlush ==
  \/ EmitHistoryCell(MaxUnits)
  \/ EmitHistoryCellWithTranslationHook(MaxUnits)
  \/ OnDrawTick
  \/ TaskComplete
  \/ AdvanceTime

SpecFlush == InitFlush /\ [][NextFlush]_vars

\* A tick has something to do: a completion message to drain or an expired
\* barrier.  TickDue is ENABLED <<OnDrawTick>>_vars, computed from the state.
TickDue ==
  \E config \in ConfigOptions :
    on_draw_tick(Self, active_thread_id, config).s # Self

\* Draw ticks keep occurring and time keeps passing: weak fairness of the tick,
\* with its enabling condition written out as TickDue, and of the clock.  The
\* UI loop is asked for a frame at the barrier's deadline when the barrier is
\* opened (schedule_frame_in) and by every task after its send
\* (schedule_frame), and every frame makes one tick.
SpecFlushLive ==
  /\ SpecFlush
  /\ ([]<>(~TickDue) \/ []<><<OnDrawTick>>_vars)
  /\ WF_vars(AdvanceTime)

\* The barrier of one enabled orchestrator while the host switches threads:
\* a task may never send its message, and a message that arrives while
\* another thread is active is received and dropped.
NextPending ==
  \/ EmitHistoryCell(MaxPendingCells)
  \/ EmitHistoryCellWithTranslationHook(MaxPendingCells)
  \/ OnDrawTick
  \/ TaskComplete
  \/ SetActiveThread
  \/ AdvanceTime

SpecPending == InitFlush /\ [][NextPending]_vars

\* Draw ticks keep occurring and time keeps passing, as in SpecFlushLive; the
\* tasks and the host are under no obligation.
SpecPendingLive ==
  /\ SpecPending
  /\ ([]<>(~TickDue) \/ []<><<OnDrawTick>>_vars)
  /\ WF_vars(AdvanceTime)

\* The title protocol of one enabled orchestrator on one thread: reasoning
\* cells are inserted and translated, with or without a title in the
\* translation, while the header is derived from streaming buffers.
TitleTranslateResults ==
  {[ok |-> TRUE, text |-> x] :
     x \in TranslatedTexts \cup { <<"c">> }}         \* also one with no title
    \cup {[ok |-> FALSE, text |-> e] : e \in ErrorTexts}

TaskCompleteTitle ==
  /\ \E task \in tasks, result \in TitleTranslateResults : TaskSend(task, result)
  /\ UNCHANGED <<enabled, title_translation_cache, current_reasoning_title_raw,
                 body_translation_barrier, deferred_history_cells,
                 body_translation_seq, app_events, now, active_thread_id,
                 env_max_wait, history, runner,
                 resolver, reader>>

NextTitle ==
  \/ EmitHistoryCellWithTranslationHook(MaxTitleCells)
  \/ MaybeStatusHeaderFromReasoningBuffer
  \/ OnDrawTick
  \/ TaskCompleteTitle
  \/ AdvanceTime

SpecTitle == InitFlush /\ [][NextTitle]_vars

\* One call of run_translation_command with its child and its two drains.
OrchestratorUnchanged ==
  UNCHANGED <<enabled, title_translation_cache, current_reasoning_title_raw,
              body_translation_barrier, deferred_history_cells,
              body_translation_seq, body_translation_results, app_events,
              tasks, now, active_thread_id, env_max_wait, posted, history,
              resolver, reader>>

\* The pipes and waitpid work: no read of a pipe and no wait() fails with an
\* I/O error in the runs examined.
IoOutcomes == {TRUE}

RunTranslationCommand ==
  /\ runner.pc = "not_called"
  /\ \E timeout \in Timeouts, command_is_empty \in BOOLEAN, program \in Programs :
       runner' = run_translation_command(runner, timeout, command_is_empty, program)
  /\ OrchestratorUnchanged

WriteRequest ==
  /\ runner.pc = "write_request"
  /\ runner' = write_request(runner)
  /\ OrchestratorUnchanged

WriteNewline ==
  /\ runner.pc = "write_newline"
  /\ runner' = write_newline(runner)
  /\ OrchestratorUnchanged

WaitChild ==
  /\ runner.pc = "wait_child"
  /\ \E wait_ok \in IoOutcomes : runner' = wait_child(runner, wait_ok)
  /\ OrchestratorUnchanged

JoinStdout ==
  /\ runner.pc = "join_stdout"
  /\ runner' = join_stdout(runner)
  /\ OrchestratorUnchanged

JoinStderr ==
  /\ runner.pc = "join_stderr"
  /\ runner' = join_stderr(runner)
  /\ OrchestratorUnchanged

\* The drain task of a stream and the ceiling of the stream.
task_of(r, stream) == IF stream = "stdout" THEN r.stdout_task ELSE r.stderr_task

ceiling_of(stream) ==
  IF stream = "stdout" THEN MAX_TRANSLATION_STDOUT_BYTES
  ELSE MAX_TRANSLATION_STDERR_BYTES

\* What a pipe holds before a write to it blocks (Stdio::piped()).  The
\* pipes of a kernel hold 64 KiB or less; four times that is taken, still a
\* quarter of the smaller ceiling, so that a child filling a ceiling is read
\* in a few rounds.
PipeCapacity == 262144

\* The bytes of the stream that are in the pipe, written and not yet read.
in_pipe(r, stream) == r.written[stream] - task_of(r, stream).buf

\* The child writes to one stream what it has for it and the pipe takes.
\* The write blocks while the pipe is full, and nothing more goes into a
\* pipe whose reading end is gone.
child_write(r, stream) ==
  IF /\ r.written[stream] < Unwrap(r.program)[stream]
     /\ in_pipe(r, stream) < PipeCapacity
     /\ task_of(r, stream).state \in {"none", "running"}
    THEN [r EXCEPT !.written[stream] =
            IF Unwrap(r.program)[stream] - @ <= PipeCapacity - in_pipe(r, stream)
              THEN Unwrap(r.program)[stream]
            ELSE @ + (PipeCapacity - in_pipe(r, stream))]
  ELSE r

ChildWrite ==
  /\ runner.child = "running"
  /\ \E stream \in {"stdout", "stderr"} :
       /\ child_write(runner, stream) # runner
       /\ runner' = child_write(runner, stream)
  /\ OrchestratorUnchanged

\* The child exits by itself, its output written.
ChildExit ==
  /\ runner.child = "running"
  /\ IsSome(Unwrap(runner.program).exits)
  /\ runner.written = [stdout |-> Unwrap(runner.program).stdout,
                       stderr |-> Unwrap(runner.program).stderr]
  /\ runner' = [runner EXCEPT !.child = "exited",
                              !.code = Unwrap(Unwrap(runner.program).exits),
                              !.exited_at = Some(runner.clock)]
  /\ OrchestratorUnchanged

\* Drains that read one after the other: stderr is read once stdout has
\* been read to its end.
drain_stdout_first(r, task, read_ok) ==
  IF task.stream = "stderr" /\ r.stdout_task.state = "running" THEN task
  ELSE IF ~read_ok THEN [task EXCEPT !.state = "read_error"]
  ELSE read_to_end_limited(task.buf, r.written[task.stream] - task.buf,
                           r.child # "running", task.stream, task.limit_bytes)

\* A drain task runs: it reads what is in its pipe, or its read fails.
drain(r, task, read_ok) ==
  IF ~read_ok THEN [task EXCEPT !.state = "read_error"]
  ELSE read_to_end_limited(task.buf, r.written[task.stream] - task.buf,
                           r.child # "running", task.stream, task.limit_bytes)

DrainStdout ==
  /\ runner.stdout_task.state = "running"
  /\ \E read_ok \in IoOutcomes :
       runner' = [runner EXCEPT !.stdout_task = drain(runner, @, read_ok)]
  /\ OrchestratorUnchanged

DrainStderr ==
  /\ runner.stderr_task.state = "running"
  /\ \E read_ok \in IoOutcomes :
       runner' = [runner EXCEPT !.stderr_task = drain(runner, @, read_ok)]
  /\ OrchestratorUnchanged

\* What the call does when it is polled at r.
poll(r) ==
  IF r.pc = "write_request" THEN write_request(r)
  ELSE IF r.pc = "write_newline" THEN write_newline(r)
  ELSE IF r.pc = "wait_child" THEN wait_child(r, TRUE)
  ELSE IF r.pc = "join_stdout" THEN join_stdout(r)
  ELSE IF r.pc = "join_stderr" THEN join_stderr(r)
  ELSE r

\* A task of the runtime can go on: the call itself or one of its drains.
Ready ==
  \/ poll(runner) # runner
  \/ /\ runner.stdout_task.state = "running"
     /\ drain(runner, runner.stdout_task, TRUE) # runner.stdout_task
  \/ /\ runner.stderr_task.state = "running"
     /\ drain(runner, runner.stderr_task, TRUE) # runner.stderr_task

\* A millisecond of the call passes.  The runtime polls a task that can go on
\* before the next millisecond passes: what the tasks compute takes no time
\* on the scale of the deadline, so time passes only while the call and its
\* drains wait for the child.  Only the milliseconds up to the deadline are
\* told apart.
RunnerTick ==
  /\ runner.pc \notin {"not_called", "done", "returned"}
  /\ runner.clock < runner.timeout
  /\ ~Ready
  /\ runner' = [runner EXCEPT !.clock = @ + 1]
  /\ OrchestratorUnchanged

NextRunner ==
  \/ RunTranslationCommand
  \/ WriteRequest
  \/ WriteNewline
  \/ WaitChild
  \/ JoinStdout
  \/ JoinStderr
  \/ ChildWrite
  \/ ChildExit
  \/ DrainStdout
  \/ DrainStderr
  \/ RunnerTick

SpecRunner == InitFlush /\ [][NextRunner]_vars

\* The runtime goes on polling a task that can go on, the call or one of its
\* drains, and time goes on; the child owes nothing.
RunnerStep ==
  \/ WriteRequest
  \/ WriteNewline
  \/ WaitChild
  \/ JoinStdout
  \/ JoinStderr
  \/ DrainStdout
  \/ DrainStderr

SpecRunnerLive == SpecRunner /\ WF_vars(RunnerStep) /\ WF_vars(RunnerTick)

\* A translate_text that builds its request before it looks at the command.
translate_text_request_first(r, request, timeout, command_is_empty, program) ==
  run_translation_command([r EXCEPT !.request = Some(request)],
                          timeout, command_is_empty, program)

\* translate_text up to the first await of its one call of
\* run_translation_command.
translate_text(r, request, timeout, command_is_empty, program) ==
  IF command_is_empty THEN return(r, EmptyCommand)
  ELSE run_translation_command([r EXCEPT !.request = Some(request)],
                               timeout, FALSE, program)

\* What translate_text makes of the call's return: an error is handed on;
\* an output is parsed and gives the translation or a parse error.
translate_results(result) ==
  IF result.kind = "Ok" THEN TranslateResults
  ELSE {[ok |-> FALSE, text |-> e] : e \in ErrorTexts}

\* The programs the tasks run: one that answers, one that fails, one that
\* does not exit, one that cannot be spawned.
TaskPrograms ==
  {program \in Programs :
     /\ program.stdin = "accepts"
     /\ program.stdout = 1
     /\ program.stderr = 0
     /\ program.spawns \/ program.exits = None}

\* A spawned task calls translate_text.  The tasks are independent of each
\* other; they are run one after the other here.
TaskTranslate ==
  /\ runner.pc = "not_called"
  /\ \E task \in tasks, command_is_empty \in BOOLEAN, program \in TaskPrograms :
       /\ runner' = [translate_text(runner, task.request_id, 1,
                                    command_is_empty, program)
                       EXCEPT !.request = Some(task.request_id)]
       /\ history' = IF runner'.spawned = 1
                       THEN Append(history, [ev |-> "spawn", id |-> task.request_id])
                       ELSE history
  /\ UNCHANGED <<enabled, title_translation_cache, current_reasoning_title_raw,
                 body_translation_barrier, deferred_history_cells,
                 body_translation_seq, body_translation_results, app_events,
                 tasks, now, active_thread_id, env_max_wait, posted, resolver, reader>>

\* translate_text has returned: the task sends its message and ends.
TaskReturn ==
  /\ runner.pc = "done"
  /\ \E task \in tasks, result \in translate_results(Unwrap(runner.result)) :
       /\ Some(task.request_id) = runner.request
       /\ TaskSend(task, result)
  /\ runner' = NotCalled
  /\ UNCHANGED <<enabled, title_translation_cache, current_reasoning_title_raw,
                 body_translation_barrier, deferred_history_cells,
                 body_translation_seq, app_events, now, active_thread_id,
                 env_max_wait, history, resolver, reader>>

\* No call is under way.
RunnerAtRest == runner.pc = "not_called"

\* The orchestrator on one thread with its tasks and their commands.  The
\* steps of a call touch the runner only and the steps of the UI loop never
\* touch it, so the order between them makes no difference: the steps of one
\* task, from its call of translate_text to its message, are taken together,
\* between two steps of the UI loop.
NextTasks ==
  \/ RunnerAtRest /\ EmitHistoryCellWithTranslationHook(MaxTaskCells)
  \/ RunnerAtRest /\ OnDrawTick
  \/ RunnerAtRest /\ AdvanceTime
  \/ TaskTranslate
  \/ WriteRequest
  \/ WriteNewline
  \/ WaitChild
  \/ JoinStdout
  \/ JoinStderr
  \/ ChildWrite
  \/ ChildExit
  \/ DrainStdout
  \/ DrainStderr
  \/ RunnerTick
  \/ TaskReturn

SpecTasks == InitFlush /\ [][NextTasks]_vars

\* ----------------------------------------------- the wait of a barrier
\* ui_max_wait of the configurations the host passes, and the values the
\* environment variable takes: unset, numbers with blanks around them, and
\* values that are no unsigned number.
WaitConfigs == {Some([ui_max_wait |-> w]) : w \in {1, 2}}

WaitEnvValues ==
  {None, Some(<<" ", "0">>), Some(<<"2", "\n">>), Some(<<>>), Some(<<"x">>),
   Some(<<"-", "1">>), Some(<<"1", " ", "2">>)}

\* std::env::var gives another value from now on.
SetEnv ==
  /\ \E value \in WaitEnvValues :
       /\ value # env_max_wait
       /\ env_max_wait' = value
  /\ UNCHANGED <<enabled, title_translation_cache, current_reasoning_title_raw,
                 body_translation_barrier, deferred_history_cells,
                 body_translation_seq, body_translation_results, app_events,
                 tasks, now, active_thread_id, posted, history, runner,
                 resolver, reader>>

MaybeTranslateReasoningBodyWait ==
  /\ NextUnitId <= MaxCalls
  /\ \E md \in ReasoningTexts, config \in WaitConfigs :
       Becomes(maybe_translate_reasoning_body(
                 Log(Self, "translate", NextUnitId), config, active_thread_id, md))

OnDrawTickWait ==
  \E config \in WaitConfigs :
    Becomes(on_draw_tick(Self, active_thread_id, config).s)

NextWait ==
  \/ MaybeTranslateReasoningBodyWait
  \/ OnDrawTickWait
  \/ TaskComplete
  \/ AdvanceTime
  \/ SetEnv

SpecWait == InitFlush /\ [][NextWait]_vars

\* ------------------------------------------------- warn-once, concurrently
\* The keys warned about: the legacy section of the global scope and of the
\* profile dev.
DeprecatedPaths ==
  {"[translation.agent_reasoning]", "[profiles.dev.translation.agent_reasoning]"}

ResolverOnly ==
  UNCHANGED <<enabled, title_translation_cache, current_reasoning_title_raw,
              body_translation_barrier, deferred_history_cells,
              body_translation_seq, body_translation_results, app_events,
              tasks, now, active_thread_id, env_max_wait, posted, history,
              runner, reader>>

\* A thread calls warn_deprecated_translation_config_once(old_path, ..).
WarnCall ==
  /\ \E c \in Callers, old_path \in DeprecatedPaths :
       /\ resolver.calls[c].pc = "idle"
       /\ resolver' = [resolver EXCEPT !.calls[c] =
                         [pc |-> "lock", old_path |-> old_path, poisoned |-> FALSE]]
  /\ ResolverOnly

WarnLock ==
  /\ \E c \in Callers :
       /\ resolver.calls[c].pc = "lock"
       /\ lock(resolver, c) # resolver
       /\ resolver' = lock(resolver, c)
  /\ ResolverOnly

WarnInsert ==
  /\ \E c \in Callers :
       /\ resolver.calls[c].pc = "locked"
       /\ resolver' = insert_and_warn(resolver, c)
  /\ ResolverOnly

WarnPanic ==
  /\ \E c \in Callers, inserted \in BOOLEAN :
       /\ resolver.calls[c].pc = "locked"
       /\ resolver' = panic(resolver, c, inserted)
  /\ ResolverOnly

NextWarn ==
  \/ WarnCall
  \/ WarnLock
  \/ WarnInsert
  \/ WarnPanic

SpecWarn == InitFlush /\ [][NextWarn]_vars

\* -------------------------------------------- the configurations resolved
\* The settings of a section: no command, an empty one or the command of
\* the scope, and each of the two times set or not.
SettingsOf(command, timeout_ms, ui_max_wait_ms) ==
  {AgentReasoningTranslationSettingsToml(c, t, u) :
     c \in {None, Some(<<>>), Some(command)},
     t \in {None, Some(timeout_ms)},
     u \in {None, Some(ui_max_wait_ms)}}

GlobalSettings == SettingsOf(<<"python3", "/tmp/translate.py">>, "1234", "5678")
ProfileSettings == SettingsOf(<<"python3", "/tmp/translate-dev.py">>, "2345", "3456")

\* [translation]: absent, without agent_reasoning, or with settings.
LegacySections(settings) ==
  {None, Some([agent_reasoning |-> None])}
    \cup {Some([agent_reasoning |-> Some(s)]) : s \in settings}

\* [plugins.translation]: absent, not a table, a table without
\* agent_reasoning, one with settings, and one with an unknown field.
PluginsSections(settings) ==
  {None, Some([type |-> "string"]), Some([type |-> "table", agent_reasoning |-> None])}
    \cup {Some([type |-> "table",
                agent_reasoning |-> Some([unknown_field |-> FALSE,
                                          command |-> s.command,
                                          timeout_ms |-> s.timeout_ms,
                                          ui_max_wait_ms |-> s.ui_max_wait_ms])]) :
            s \in settings}
    \cup {Some([type |-> "table",
                agent_reasoning |-> Some([unknown_field |-> TRUE,
                                          command |-> None, timeout_ms |-> None,
                                          ui_max_wait_ms |-> None])])}

\* What Config::load hands to the resolution: the sections of the global
\* scope and, when a profile is active, its name and its sections.
ConfigSources ==
  {[active_profile_name |-> Some("dev"),
    global_plugins_translation |-> gn, global_legacy_translation |-> go,
    profile_plugins_translation |-> pn, profile_legacy_translation |-> po] :
     gn \in PluginsSections(GlobalSettings), go \in LegacySections(GlobalSettings),
     pn \in PluginsSections(ProfileSettings), po \in LegacySections(ProfileSettings)}
  \cup
  {[active_profile_name |-> None,
    global_plugins_translation |-> gn, global_legacy_translation |-> go,
    profile_plugins_translation |-> None, profile_legacy_translation |-> None] :
     gn \in PluginsSections(GlobalSettings), go \in LegacySections(GlobalSettings)}

\* A configuration is loaded.
ResolveConfig ==
  /\ resolver.sources = None
  /\ \E sources \in ConfigSources :
       resolver' = resolve_agent_reasoning_translation_config(
                     [resolver EXCEPT !.sources = Some(sources)], "c1", sources)
  /\ ResolverOnly

NextResolve == ResolveConfig

SpecResolve == InitFlush /\ [][NextResolve]_vars

\* ------------------------------------------------ translate_text, with bytes
\* What the translator writes to stdout.
StdoutTexts ==
  {Chars("{\"schema_version\":1,\"text\":\" hi \"}"),
   Chars(" {\"text\": \"a\\nb\", \"note\": \"x\", \"schema_version\": 1}\n"),
   Chars("{\"schema_version\":2,\"text\":\"\"}"),
   Chars("{\"schema_version\":2,\"text\":\"hi\"}"),
   Chars("{\"schema_version\":1,\"text\":\"  \"}"),
   Chars("{\"text\":\"hi\"}"),
   Chars("{\"schema_version\":1,\"text\":\"hi\"} x"),
   Chars(" nope\n"),
   <<>>}

\* What it writes to stderr: nothing, a short line, MAX_CHARS characters,
\* one more, one more within whitespace, and an invalid byte.
StderrTexts ==
  {<<>>,
   Chars(" boom\n"),
   [i \in 1..MAX_CHARS |-> "x"],
   [i \in 1..(MAX_CHARS + 1) |-> "x"],
   <<" ">> \o [i \in 1..(MAX_CHARS + 1) |-> "y"] \o <<"\n">>,
   <<"e", "0xFF">>}

WithBytes(spawns, stdin, exits, stdout_bytes, stderr_bytes) ==
  [spawns |-> spawns, stdin |-> stdin, exits |-> exits,
   stdout |-> Len(stdout_bytes), stderr |-> Len(stderr_bytes),
   stdout_bytes |-> stdout_bytes, stderr_bytes |-> stderr_bytes]

\* A program that floods stdout.  Its bytes are not told apart: none of
\* them is returned.
FloodPrograms ==
  {[spawns |-> TRUE, stdin |-> "accepts", exits |-> Some(0),
    stdout |-> MAX_TRANSLATION_STDOUT_BYTES + 1, stderr |-> 0,
    stdout_bytes |-> <<>>, stderr_bytes |-> <<>>]}

TextPrograms ==
  {WithBytes(TRUE, "accepts", exits, out, err) :
     exits \in {None} \cup {Some(code) : code \in ExitCodes},
     out \in StdoutTexts, err \in StderrTexts}
  \cup {WithBytes(FALSE, "accepts", Some(0), <<>>, <<>>),
        WithBytes(TRUE, "closed", Some(0), <<>>, <<>>)}
  \cup FloodPrograms

\* TranslationRequest for the kind and the text.
TranslationRequest(kind, text) ==
  [schema_version |-> TRANSLATION_SCHEMA_VERSION,
   kind |-> kind,
   format |-> IF kind = "agent_reasoning_title" THEN "plain" ELSE "markdown",
   source_language |-> "en", target_language |-> "zh-CN", text |-> text]

Requests ==
  {TranslationRequest("agent_reasoning_title", Chars("Plan")),
   TranslationRequest("agent_reasoning_body", <<>>)}

TranslateText ==
  /\ runner.pc = "not_called"
  /\ \E request \in Requests, timeout \in Timeouts, command_is_empty \in BOOLEAN,
        program \in TextPrograms :
       runner' = translate_text(runner, request, timeout, command_is_empty, program)
  /\ OrchestratorUnchanged

TranslateReturn ==
  /\ runner.pc = "done"
  /\ runner' = translate_return(runner)
  /\ OrchestratorUnchanged

NextTranslate ==
  \/ TranslateText
  \/ WriteRequest
  \/ WriteNewline
  \/ WaitChild
  \/ JoinStdout
  \/ JoinStderr
  \/ ChildWrite
  \/ ChildExit
  \/ DrainStdout
  \/ DrainStderr
  \/ RunnerTick
  \/ TranslateReturn

SpecTranslate == InitFlush /\ [][NextTranslate]_vars

\* One call of read_to_end_limited on a stream of `total` bytes, for each of
\* the two streams: nothing, one byte, a chunk, and the sizes about the
\* ceiling.
ReaderOnly ==
  UNCHANGED <<enabled, title_translation_cache, current_reasoning_title_raw,
              body_translation_barrier, deferred_history_cells,
              body_translation_seq, body_translation_results, app_events,
              tasks, now, active_thread_id, env_max_wait, posted, history,
              runner, resolver>>

StreamTotals(stream) ==
  {0, 1, ChunkBytes, ChunkBytes + 1,
   ceiling_of(stream) - 1, ceiling_of(stream), ceiling_of(stream) + 1,
   ceiling_of(stream) + ChunkBytes, ceiling_of(stream) + 2 * ChunkBytes + 1}

ReadToEndLimited ==
  /\ reader.pc = "not_called"
  /\ \E stream \in {"stdout", "stderr"} :
       \E total \in StreamTotals(stream) :
         reader' = begin_read_to_end_limited(stream, ceiling_of(stream), total)
  /\ ReaderOnly

\* A read returns its bytes or fails.
Loop ==
  /\ reader.pc = "loop"
  /\ \E read_ok \in BOOLEAN, short \in BOOLEAN :
       reader' = loop(reader, read_ok, short)
  /\ ReaderOnly

NextDrain == ReadToEndLimited \/ Loop

SpecDrain == InitFlush /\ [][NextDrain]_vars

\* ---------------------------------------------------------------- claims
\* The barriers the log shows open after its first n events.
OpenAfter(n) ==
  {history[i].id : i \in {j \in 1..n : history[j].ev = "open"}}
    \ {history[i].id : i \in {j \in 1..n : history[j].ev \in {"apply", "timeout"}}}

BarrierId == IF IsSome(body_translation_barrier)
               THEN {Unwrap(body_translation_barrier).request_id}
               ELSE {}

\* C1: at most one barrier is open at any instant; a barrier is opened only
\* by a dispatch made while none is open and is closed only by a completion
\* or a timeout of that same barrier, so an open barrier is never replaced.
C1_AtMostOneOpenBarrier ==
  /\ OpenAfter(Len(history)) = BarrierId
  /\ \A i \in DOMAIN history :
       /\ history[i].ev = "open" => OpenAfter(i - 1) = {}
       /\ history[i].ev \in {"apply", "timeout"} => OpenAfter(i - 1) = {history[i].id}

\* A second barrier is open after the first one was resolved.
C1_Witness ==
  /\ IsSome(body_translation_barrier)
  /\ Unwrap(body_translation_barrier).request_id = 1
  /\ \E i \in DOMAIN history : history[i].ev \in {"apply", "timeout"}

\* The events the step appends to the log.
Logged == SubSeq(history', Len(history) + 1, Len(history'))

\* The step is a direct dispatch request of the host.
IsDispatchRequest == Logged # <<>> /\ Logged[1].ev = "translate"

\* C2: a dispatch made while a barrier is Pending returns no request id and
\* changes nothing: barrier, request-id counter, deferred queue, title cache,
\* tasks and UI sink are as before.
C2_PendingDispatchIsNoOp ==
  [][(IsSome(body_translation_barrier) /\ IsDispatchRequest) =>
       /\ \A w \in ConfigWaits, th \in ThreadIds, title \in {None, Some(<<"P">>)} :
            begin_body_translation_barrier(Self, w, th, title)
              = [s |-> Self, request_id |-> None]
       /\ Logged = <<[ev |-> "translate", id |-> NextUnitId]>>
       /\ UNCHANGED <<body_translation_barrier, body_translation_seq,
                      deferred_history_cells, title_translation_cache,
                      current_reasoning_title_raw, tasks, posted, app_events,
                      body_translation_results>>]_vars

\* A dispatch was requested while the barrier of an earlier request was open.
C2_Witness ==
  /\ IsSome(body_translation_barrier)
  /\ \E i \in DOMAIN history :
       /\ history[i].ev = "open"
       /\ history[i].id = Unwrap(body_translation_barrier).request_id
       /\ \E j \in DOMAIN history : j > i /\ history[j].ev = "translate"

\* The orchestrator as the (k+1)-th message of the channel finds it in the
\* next tick: the first k messages are received and handled.
AfterReceiving(k, config) ==
  drain_loop([Self EXCEPT !.body_translation_results = SubSeq(@, 1, k)],
             NoResult, active_thread_id, config).s

\* The message belongs to the open barrier and its thread is the active one.
Matches(s, msg) ==
  /\ s.body_translation_barrier # None
  /\ s.body_translation_barrier[1].request_id = msg.request_id
  /\ s.body_translation_barrier[1].thread_id = msg.thread_id
  /\ active_thread_id = <<msg.thread_id>>

\* C3: a completion message is honoured only if a barrier is open, its
\* request id and thread id are the barrier's and that thread is the active
\* one; any other message is dropped with no state change, no UI emission,
\* no header update and no redraw request.  A matching one closes the barrier.
C3_StaleDiscard ==
  \A config \in ConfigOptions, k \in 0..(Len(body_translation_results) - 1) :
    LET before == AfterReceiving(k, config)
        msg    == body_translation_results[k + 1]
        after  == on_body_translated(before, msg, active_thread_id, config)
    IN  IF Matches(before, msg)
          THEN /\ after.s.history[Len(before.history) + 1]
                    = [ev |-> "apply", id |-> msg.request_id]
               /\ after.s.body_translation_barrier # before.body_translation_barrier
               /\ after.result.needs_redraw
          ELSE after = [s |-> before, result |-> NoResult]

\* The one message of the open barrier's request was received and dropped:
\* the barrier is still open.
C3_Witness ==
  /\ IsSome(body_translation_barrier)
  /\ posted[Unwrap(body_translation_barrier).request_id + 1] = 1
  /\ \A i \in DOMAIN body_translation_results :
       body_translation_results[i].request_id
         # Unwrap(body_translation_barrier).request_id

\* The ids of the host's cells among `cells`, in the order they stand.
IsHostCell(cell) == cell.id > 0
UnitIds(cells) ==
  [i \in 1..Len(SelectSeq(cells, IsHostCell)) |-> SelectSeq(cells, IsHostCell)[i].id]

\* C4: the host's cells reach the UI sink in the order in which their
\* insertion was requested (ids number the requests): the emitted cells
\* followed by the queued ones are in request order, so queued cells flush
\* first-in first-out and no later cell overtakes an earlier queued one.
C4_RequestOrder ==
  LET order == UnitIds(app_events) \o UnitIds(deferred_history_cells)
  IN  \A i, j \in DOMAIN order : i < j => order[i] < order[j]

\* Two cells requested while one barrier was open have both been flushed.
C4_Witness ==
  \E i, j, k \in DOMAIN history :
    /\ i < j /\ j < k
    /\ history[i].ev = "request"
    /\ history[j].ev = "request"
    /\ history[k].ev \in {"apply", "timeout"}
    /\ \A n \in i..k : history[n].ev = "request" \/ n = k
    /\ \E a, b \in DOMAIN app_events :
         /\ a < b
         /\ app_events[a].id = history[i].id
         /\ app_events[b].id = history[j].id

\* How often the host's cell `id` stands in `cells`.
Occurrences(cells, id) == Cardinality({i \in DOMAIN cells : cells[i].id = id})

IsEmitted(id) == Occurrences(app_events, id) > 0

\* C5: a cell inserted while a barrier is open is never dropped: every cell
\* the host has handed over is in the queue or in the UI sink, once in all,
\* and while ticks keep occurring the queue is empty again and again, so that
\* every queued cell is eventually emitted, exactly once, whatever becomes of
\* the translation tasks.
C5_QueuedCellsAreEmitted ==
  /\ [](\A id \in 1..(NextUnitId - 1) :
          history[CHOOSE i \in HostCalls : history[i].id = id].ev = "request" =>
            Occurrences(app_events, id) + Occurrences(deferred_history_cells, id) = 1)
  /\ []<>(deferred_history_cells = <<>>)

\* A cell queued behind a barrier was emitted after the barrier timed out
\* with its task still running.
C5_Witness ==
  \E i, k \in DOMAIN history :
    /\ i < k
    /\ history[i].ev = "request"
    /\ history[k].ev = "timeout"
    /\ \A n \in i..(k - 1) : history[n].ev = "request"
    /\ IsEmitted(history[i].id)
    /\ \E task \in tasks : task.request_id = history[k].id

\* The step resolves the open barrier, by a completion or by the timeout.
IsResolution == Logged # <<>> /\ Logged[1].ev \in {"apply", "timeout"}

\* What a flush that emits the first k queued cells logs, after the two
\* events of the resolution that called it.
FlushLog(k) ==
  [i \in 1..k |-> [ev |-> "emit", id |-> deferred_history_cells[i].id]]

ChainedOpen ==
  IF IsSome(body_translation_barrier')
    THEN <<[ev |-> "open", id |-> Unwrap(body_translation_barrier').request_id]>>
    ELSE <<>>

\* C6: the flush that follows a resolution pops cells from the front of the
\* queue and emits them in order; it stops at the first reasoning cell whose
\* chained dispatch opens a barrier, that cell being emitted just before the
\* barrier opens and after every cell queued ahead of it; the cells behind it
\* stay queued in order, and as long as that barrier stays open the queue
\* only grows at its tail and nothing is emitted.
C6_FlushStopsAtChainedBarrier ==
  /\ [][IsResolution =>
          \E k \in 0..Len(deferred_history_cells) :
            /\ deferred_history_cells' =
                 SubSeq(deferred_history_cells, k + 1, Len(deferred_history_cells))
            /\ Len(app_events') = Len(app_events) + 1 + k
            /\ SubSeq(app_events', Len(app_events) + 2, Len(app_events'))
                 = SubSeq(deferred_history_cells, 1, k)
            /\ SubSeq(Logged, 3, Len(Logged)) = FlushLog(k) \o ChainedOpen
            /\ k < Len(deferred_history_cells) => IsSome(body_translation_barrier')
            /\ IsSome(body_translation_barrier') =>
                 /\ k >= 1
                 /\ \A j \in 1..(k - 1) :
                      ~IsSome(full_markdown_for_translation(deferred_history_cells[j]))
                 /\ \E task \in tasks' \ tasks :
                      /\ task.request_id = Unwrap(body_translation_barrier').request_id
                      /\ Some(task.full_reasoning) =
                           full_markdown_for_translation(deferred_history_cells[k])]_vars
  /\ [][(IsSome(body_translation_barrier)
           /\ body_translation_barrier' = body_translation_barrier) =>
          /\ app_events' = app_events
          /\ Len(deferred_history_cells') >= Len(deferred_history_cells)
          /\ SubSeq(deferred_history_cells', 1, Len(deferred_history_cells))
               = deferred_history_cells]_vars

\* A flush stopped at a queued reasoning cell: the barrier of its chained
\* dispatch is open, the cell is with the UI sink and a cell that was queued
\* behind it still waits.
C6_Witness ==
  /\ IsSome(body_translation_barrier)
  /\ deferred_history_cells # <<>>
  /\ \E i \in DOMAIN history :
       /\ i > 1
       /\ history[i] = [ev |-> "open", id |-> Unwrap(body_translation_barrier).request_id]
       /\ history[i - 1].ev = "emit"
       /\ history[i - 1].id > 0
       /\ IsEmitted(history[i - 1].id)
       /\ \E r \in 1..(i - 2), n \in 1..(i - 2) :
            /\ history[r] = [ev |-> "request", id |-> deferred_history_cells[1].id]
            /\ history[n].ev \in {"apply", "timeout"}
            /\ r < n

\* The orchestrator a tick leaves once it has drained the channel, before it
\* looks at the deadline.
Drained(config) == drain_body_translation_results(Self, active_thread_id, config).s

\* The timeout of barrier b, from the drained orchestrator `pre` to `post`.
TimedOut(pre, post, b, config) ==
  LET queue == pre.deferred_history_cells
      shown == post.app_events
      base  == Len(pre.app_events)
  IN  /\ post.body_translation_barrier # Some(b)
      /\ SubSeq(post.history, 1, Len(pre.history) + 2)
           = pre.history \o <<[ev |-> "timeout", id |-> b.request_id],
                              [ev |-> "emit", id |-> 0]>>
      /\ Cardinality({i \in DOMAIN post.history :
                        post.history[i].ev = "timeout"})
           = Cardinality({i \in DOMAIN pre.history :
                            pre.history[i].ev = "timeout"}) + 1
      /\ Len(shown) > base
      /\ SubSeq(shown, 1, base) = pre.app_events
      /\ shown[base + 1] =
           [kind |-> "translation_error", id |-> 0, md |-> None,
            title |-> b.title, text |-> TimeoutReason(b.max_wait)]
      /\ \A task \in pre.tasks : task.request_id = b.request_id => task.title = b.title
      /\ \A i \in (base + 2)..Len(shown) : shown[i].id > 0
      /\ post = flush_deferred_history_cells(
                  [pre EXCEPT !.body_translation_barrier = None,
                              !.history = SubSeq(post.history, 1, Len(pre.history) + 2),
                              !.app_events = SubSeq(shown, 1, base + 1)],
                  config, active_thread_id)
      /\ \E k \in 0..Len(queue) :
           /\ post.deferred_history_cells = SubSeq(queue, k + 1, Len(queue))
           /\ SubSeq(shown, base + 2, Len(shown)) = SubSeq(queue, 1, k)
           /\ k < Len(queue) => IsSome(post.body_translation_barrier)
      /\ pre.tasks \subseteq post.tasks
      /\ post.body_translation_results = pre.body_translation_results

\* C7: a tick that, its channel drained, finds a barrier open at or past its
\* deadline clears that barrier, emits one failure cell with the barrier's
\* title and the timeout reason, then flushes the queue, and asks for a
\* redraw; the barrier's task, running or not, is left as it is and nothing
\* is received from it.  A tick that finds no expired barrier times nothing
\* out.
C7_TimeoutOnTick ==
  \A config \in ConfigOptions :
    LET pre  == Drained(config)
        tick == on_draw_tick(Self, active_thread_id, config)
    IN  IF IsSome(pre.body_translation_barrier)
           /\ now >= Unwrap(pre.body_translation_barrier).deadline
          THEN /\ TimedOut(pre, tick.s, Unwrap(pre.body_translation_barrier), config)
               /\ tick.result.needs_redraw
          ELSE tick.s = pre

\* A barrier timed out while its task was still running: the placeholder with
\* the barrier's title is with the UI sink and the task has not been stopped.
C7_Witness ==
  \E i \in DOMAIN history :
    /\ history[i].ev = "timeout"
    /\ \E task \in tasks :
         /\ task.request_id = history[i].id
         /\ \E n \in DOMAIN app_events :
              /\ app_events[n].kind = "translation_error"
              /\ app_events[n].title = task.title
              /\ app_events[n].text # <<"translator timed out">>

\* Where the log records a resolution of request `id`.
Resolutions(id) ==
  {i \in DOMAIN history : history[i].ev \in {"apply", "timeout"} /\ history[i].id = id}

AllResolutions == {i \in DOMAIN history : history[i].ev \in {"apply", "timeout"}}

\* The cells the orchestrator makes itself: translations, failures and
\* timeout placeholders.
TranslationCells(cells) ==
  {i \in DOMAIN cells : cells[i].kind \in {"translation", "translation_error"}}

\* C8: every barrier ever opened is resolved once at most, by one applied
\* completion or by one timeout, and exactly once when it is no longer the
\* open one; each resolution puts exactly one translation cell into the UI
\* sink, at once; a message whose request is already resolved is dropped
\* without effect.
C8_OneResolutionPerBarrier ==
  /\ \A id \in 0..(body_translation_seq - 1) :
       Cardinality(Resolutions(id)) = IF id \in BarrierId THEN 0 ELSE 1
  /\ \A i \in AllResolutions :
       /\ history[i].id < body_translation_seq
       /\ i < Len(history)
       /\ history[i + 1] = [ev |-> "emit", id |-> 0]
  /\ Cardinality(TranslationCells(app_events)) = Cardinality(AllResolutions)
  /\ Cardinality({i \in DOMAIN history : history[i] = [ev |-> "emit", id |-> 0]})
       = Cardinality(AllResolutions)
  /\ TranslationCells(deferred_history_cells) = {}
  /\ \A k \in DOMAIN body_translation_results, config \in ConfigOptions :
       Resolutions(body_translation_results[k].request_id) # {} =>
         on_body_translated(Self, body_translation_results[k], active_thread_id, config)
           = [s |-> Self, result |-> NoResult]

\* One barrier was resolved by its completion and another by the timeout;
\* the message of the timed-out request came afterwards and was dropped.
C8_Witness ==
  /\ body_translation_results = <<>>
  /\ \E i, j \in DOMAIN history :
       /\ history[i].ev = "apply"
       /\ history[j].ev = "timeout"
       /\ posted[history[j].id + 1] = 1
  /\ Cardinality(TranslationCells(app_events)) = 2

\* The tasks of request `id` that have not sent their message yet.
TasksOf(id) == {task \in tasks : task.request_id = id}

\* The message says what was captured when `captured` (a barrier or a task)
\* was made.
CarriesCaptured(msg, captured) ==
  /\ msg.request_id = captured.request_id
  /\ msg.thread_id = captured.thread_id
  /\ msg.title = captured.title

\* C9: every dispatch that opened a barrier has exactly one message: it was
\* sent once, or its task is still running and will send it; a task's message
\* carries the request id, thread id and title captured at the dispatch and
\* either a translation or an error, never both and never neither; requests
\* that opened no barrier have no task and no message.
C9_OneMessagePerRequest ==
  /\ Len(posted) = body_translation_seq
  /\ Cardinality({i \in DOMAIN history : history[i].ev = "open"}) = body_translation_seq
  /\ \A id \in 0..(body_translation_seq - 1) :
       /\ posted[id + 1] + Cardinality(TasksOf(id)) = 1
       /\ Cardinality({k \in DOMAIN body_translation_results :
                         body_translation_results[k].request_id = id}) <= posted[id + 1]
  /\ \A task \in tasks :
       /\ task.request_id < body_translation_seq
       /\ task.request_id \in BarrierId =>
            /\ task.thread_id = Unwrap(body_translation_barrier).thread_id
            /\ task.title = Unwrap(body_translation_barrier).title
       /\ \A result \in TranslateResults :
            LET msg == CompletionMessage(task, result)
            IN  /\ CarriesCaptured(msg, task)
                /\ IsSome(msg.translated) = result.ok
                /\ IsSome(msg.error) = ~result.ok
  /\ \A k \in DOMAIN body_translation_results :
       LET msg == body_translation_results[k]
       IN  /\ msg.request_id < body_translation_seq
           /\ IsSome(msg.translated) # IsSome(msg.error)
           /\ msg.request_id \in BarrierId =>
                CarriesCaptured(msg, Unwrap(body_translation_barrier))

\* The tasks of two requests have each sent their message, the first an
\* error and the second a translation.
C9_Witness ==
  /\ tasks = {}
  /\ body_translation_seq = 2
  /\ Len(body_translation_results) = 2
  /\ IsSome(body_translation_results[1].error)
  /\ IsSome(body_translation_results[2].translated)
  /\ body_translation_results[1].request_id # body_translation_results[2].request_id

\* The requests whose barrier the UI timeout cleared.
TimedOutRequests ==
  {history[i].id : i \in {j \in DOMAIN history : history[j].ev = "timeout"}}

\* C10 as the specification states it: counting the background tasks that
\* have been dispatched and have not yet posted their message, there is never
\* more than one, also after UI timeouts.
C10_AtMostOneTaskInFlight == Cardinality(tasks) <= 1

\* C10: the orchestrator waits for one body translation at most: among the
\* running tasks at most one belongs to a request that did not time out, and
\* it is the task of the open barrier; every other running task belongs to a
\* request whose barrier the UI timeout cleared and runs on uncancelled, one
\* task a request.  Thread switches and chained dispatches start no second
\* task: without a timeout there is never more than one.
C10_OneAwaitedTranslation ==
  /\ \A task \in tasks :
       \/ task.request_id \in BarrierId
       \/ task.request_id \in TimedOutRequests
  /\ \A id \in 0..(body_translation_seq - 1) : Cardinality(TasksOf(id)) <= 1
  /\ Cardinality({task \in tasks : task.request_id \notin TimedOutRequests}) <= 1
  /\ Cardinality(tasks) <= Cardinality(TimedOutRequests) + 1
  /\ TimedOutRequests = {} => Cardinality(tasks) <= 1

\* Two tasks run: the one of a request that timed out and the one of the
\* barrier opened after it.
C10_Witness ==
  /\ IsSome(body_translation_barrier)
  /\ \E old, new \in tasks :
       /\ old.request_id \in TimedOutRequests
       /\ new.request_id \in BarrierId
       /\ old.request_id < new.request_id

\* Where the log records event `ev` of request `id`.
Events(ev, id) == {i \in DOMAIN history : history[i] = [ev |-> ev, id |-> id]}

\* C11: the timeout of request n cancels nothing: the task of n is still
\* running or has sent its one message; that message, whenever the tick
\* receives it, changes nothing and emits nothing, also when the barrier of a
\* later request on the same thread is open by then; and no completion has
\* ever been applied to a request that had timed out or was not the open one.
C11_LateCompletionIsStale ==
  /\ \A n \in TimedOutRequests : posted[n + 1] + Cardinality(TasksOf(n)) = 1
  /\ \A config \in ConfigOptions, k \in 0..(Len(body_translation_results) - 1) :
       body_translation_results[k + 1].request_id \in TimedOutRequests =>
         on_body_translated(AfterReceiving(k, config), body_translation_results[k + 1],
                            active_thread_id, config)
           = [s |-> AfterReceiving(k, config), result |-> NoResult]
  /\ \A i \in DOMAIN history :
       history[i].ev = "apply" =>
         /\ OpenAfter(i - 1) = {history[i].id}
         /\ Events("timeout", history[i].id) = {}

\* Request 0 timed out, the barrier of request 1 is open on the same thread,
\* which is the active one, and the late message of request 0 waits in the
\* channel.
C11_Witness ==
  /\ IsSome(body_translation_barrier)
  /\ Unwrap(body_translation_barrier).request_id = 1
  /\ 0 \in TimedOutRequests
  /\ active_thread_id = Some(Unwrap(body_translation_barrier).thread_id)
  /\ \E k \in DOMAIN body_translation_results :
       /\ body_translation_results[k].request_id = 0
       /\ body_translation_results[k].thread_id = Unwrap(body_translation_barrier).thread_id

\* The ids of the barriers opened so far, in the order of their opening.
OpenedIds ==
  LET opens == SelectSeq(history, LAMBDA e : e.ev = "open")
  IN  [i \in DOMAIN opens |-> opens[i].id]

\* C12: the k-th barrier opened has id k-1 and the counter stands at the
\* number of barriers opened, so ids grow strictly and no two requests share
\* one; a begin returns the counter's value and adds one to the counter when
\* no barrier is open, and returns nothing and leaves the counter when one is.
C12_RequestIdsMonotonic ==
  /\ OpenedIds = [i \in 1..body_translation_seq |-> i - 1]
  /\ \A i, j \in DOMAIN OpenedIds : i < j => OpenedIds[i] < OpenedIds[j]
  /\ \A task \in tasks : task.request_id < body_translation_seq
  /\ BarrierId \subseteq 0..(body_translation_seq - 1)
  /\ \A w \in ConfigWaits, th \in ThreadIds :
       LET begun == begin_body_translation_barrier(Self, w, th, None)
       IN  IF IsSome(body_translation_barrier)
             THEN begun = [s |-> Self, request_id |-> None]
             ELSE /\ begun.request_id = Some(body_translation_seq)
                  /\ begun.s.body_translation_seq = body_translation_seq + 1
                  /\ Unwrap(begun.s.body_translation_barrier).request_id
                       = body_translation_seq

\* Two requests were opened one after the other: request 0 timed out and
\* request 1 was applied.
C12_Witness ==
  /\ body_translation_seq = 2
  /\ body_translation_barrier = None
  /\ Events("timeout", 0) # {}
  /\ Events("apply", 1) # {}

\* The state with nothing pending: no barrier and an empty deferred queue.
Idled(s) ==
  [s EXCEPT !.body_translation_barrier = None, !.deferred_history_cells = <<>>]

\* C13: the title fast path returns nothing when the buffer has no bold-lead
\* title, the bilingual form original(translated) when the title is a key of
\* the cache, and the raw title otherwise.  It records the raw title as the
\* one displayed and changes nothing else: barrier, deferred queue, request
\* counter and cache are left as they are, and the answer is the same with a
\* barrier open as with none.
C13_TitleFastPath ==
  /\ [](\A buffer \in ReasoningBuffers \cup ReasoningTexts :
          /\ extract_first_bold(buffer) = None =>
                maybe_status_header_from_reasoning_buffer(Self, buffer)
                  = [s |-> Self, header |-> None]
          /\ extract_first_bold(buffer) # None =>
                /\ maybe_status_header_from_reasoning_buffer(Self, buffer).s
                     = [Self EXCEPT !.current_reasoning_title_raw =
                                      extract_first_bold(buffer)]
                /\ \A e \in title_translation_cache :
                     e.k = Unwrap(extract_first_bold(buffer)) =>
                       maybe_status_header_from_reasoning_buffer(Self, buffer).header
                         = Some(e.k \o <<"(">> \o e.v \o <<")">>)
                /\ (\A e \in title_translation_cache :
                      e.k # Unwrap(extract_first_bold(buffer))) =>
                       maybe_status_header_from_reasoning_buffer(Self, buffer).header
                         = extract_first_bold(buffer)
          /\ maybe_status_header_from_reasoning_buffer(Idled(Self), buffer).header
               = maybe_status_header_from_reasoning_buffer(Self, buffer).header)
  /\ [][current_reasoning_title_raw' # current_reasoning_title_raw =>
          UNCHANGED <<enabled, title_translation_cache, body_translation_barrier,
                      deferred_history_cells, body_translation_seq,
                      body_translation_results, app_events, tasks, now,
                      active_thread_id, env_max_wait, posted, history>>]_vars

\* A barrier is open, the cache holds P -> Q from an earlier request, and the
\* fast path has recorded P as the displayed title.
C13_Witness ==
  /\ body_translation_barrier # None
  /\ [k |-> <<"P">>, v |-> <<"Q">>] \in title_translation_cache
  /\ current_reasoning_title_raw = Some(<<"P">>)
  /\ maybe_status_header_from_reasoning_buffer(Self, <<"*", "*", "P", "*", "*">>).header
       = Some(<<"P", "(", "Q", ")">>)

\* Completion messages the open barrier would honour: its own request and
\* thread, with or without an original title, carrying a translation with
\* title Q, with title S, with no title, or a failure.
HonouredMessages ==
  IF body_translation_barrier = None THEN {}
  ELSE {[request_id |-> Unwrap(body_translation_barrier).request_id,
         thread_id |-> Unwrap(body_translation_barrier).thread_id,
         title |-> title, translated |-> outcome.translated,
         error |-> outcome.error] :
          title \in {None, Some(<<"P">>)},
          outcome \in
            {[translated |-> Some(x), error |-> None] :
               x \in TranslatedTexts
                 \cup { <<"*", "*", "S", "*", "*", "c">>, <<"c">> }}
              \cup {[translated |-> None, error |-> Some(e)] : e \in ErrorTexts}}

\* Both titles of a message exist.
HasTitlePair(msg) ==
  /\ IsSome(msg.title)
  /\ IsSome(msg.translated)
  /\ IsSome(extract_first_bold(Unwrap(msg.translated)))

CacheKeys(cache) == {e.k : e \in cache}

\* C14: applying an honoured success puts original -> translated title into
\* the cache, replacing the entry of that key, exactly when both titles
\* exist, and returns the bilingual form as a header update exactly when in
\* addition the displayed raw title is the original.  Nothing else changes
\* the cache: failures, stale completions, timeouts and the fast path leave
\* it as it is, and no key is ever removed.
C14_TitleCacheOnSuccess ==
  /\ [](\A msg \in HonouredMessages, config \in ConfigOptions :
          /\ on_body_translated(Self, msg, active_thread_id, config)
                 .s.title_translation_cache
               = IF HasTitlePair(msg)
                   THEN {e \in title_translation_cache : e.k # Unwrap(msg.title)}
                          \cup {[k |-> Unwrap(msg.title),
                                 v |-> Unwrap(extract_first_bold(Unwrap(msg.translated)))]}
                   ELSE title_translation_cache
          /\ on_body_translated(Self, msg, active_thread_id, config)
                 .result.status_header_update
               = IF HasTitlePair(msg) /\ current_reasoning_title_raw = msg.title
                   THEN Some(Unwrap(msg.title) \o <<"(">>
                               \o Unwrap(extract_first_bold(Unwrap(msg.translated)))
                               \o <<")">>)
                   ELSE None
          /\ on_body_translated(Self, [msg EXCEPT !.request_id = @ + 1],
                                active_thread_id, config)
               = [s |-> Self, result |-> NoResult])
  /\ [](\A config \in ConfigOptions, buffer \in ReasoningBuffers :
          /\ maybe_flush_timeout(Self, config, active_thread_id)
                 .s.title_translation_cache = title_translation_cache
          /\ maybe_status_header_from_reasoning_buffer(Self, buffer)
                 .s.title_translation_cache = title_translation_cache)
  /\ [][title_translation_cache' # title_translation_cache =>
          /\ body_translation_barrier # None
          /\ \E i \in (Len(history) + 1)..Len(history') :
               /\ history'[i] = [ev |-> "apply",
                                 id |-> Unwrap(body_translation_barrier).request_id]
               /\ \E msg \in {body_translation_results[k] :
                                 k \in DOMAIN body_translation_results} :
                    /\ msg.request_id = history'[i].id
                    /\ HasTitlePair(msg)
          /\ CacheKeys(title_translation_cache) \subseteq
               CacheKeys(title_translation_cache')]_vars

\* The first request was applied and cached P -> Q; the second request's
\* barrier is open, P is the displayed title, and its completion is waiting
\* in the channel.
C14_Witness ==
  /\ [k |-> <<"P">>, v |-> <<"Q">>] \in title_translation_cache
  /\ Events("apply", 0) # {}
  /\ current_reasoning_title_raw = Some(<<"P">>)
  /\ \E msg \in HonouredMessages :
       /\ Len(body_translation_results) > 0
       /\ body_translation_results[1] = msg
       /\ HasTitlePair(msg)

\* Failure messages the open barrier would honour, with and without a
\* rendered error.
FailureMessages ==
  {m \in HonouredMessages : m.translated = None}
    \cup {[m EXCEPT !.error = None] : m \in {h \in HonouredMessages : h.translated = None}}

ErrorCells(events) == {i \in DOMAIN events : events[i].kind = "translation_error"}

\* What a failure leaves behind: failed is the outcome of the failure message
\* msg, succeeded the outcome of a success for the same request.
FailureApplied(failed, succeeded, msg) ==
  /\ failed.result = [status_header_update |-> None, needs_redraw |-> TRUE]
  /\ ErrorCells(failed.s.app_events)
       = ErrorCells(app_events) \cup {Len(app_events) + 1}
  /\ failed.s.app_events[Len(app_events) + 1]
       = [kind |-> "translation_error", id |-> 0, md |-> None,
          title |-> msg.title,
          text |-> IF msg.error = None THEN <<"unknown error">>
                   ELSE Unwrap(msg.error)]
  /\ failed.s = [succeeded.s EXCEPT
                   !.app_events[Len(app_events) + 1] =
                     failed.s.app_events[Len(app_events) + 1]]
  /\ \/ failed.s.body_translation_barrier = None
     \/ Unwrap(failed.s.body_translation_barrier).request_id > msg.request_id
  /\ failed.s.body_translation_barrier = None =>
       \A th \in ThreadIds, wait \in ConfigWaits :
         /\ begin_body_translation_barrier(failed.s, wait, th, None).request_id
              = Some(failed.s.body_translation_seq)
         /\ begin_body_translation_barrier(failed.s, wait, th, None)
              .s.body_translation_barrier # None

\* C15: a failure is never fatal.  A matching completion that carries an
\* error clears the barrier, emits exactly one failure cell with the original
\* title and the rendered error, flushes the deferred queue exactly as a
\* success does, and leaves an orchestrator whose next dispatch opens a
\* barrier.
C15_FailureIsNotFatal ==
  \A msg \in FailureMessages, config \in ConfigOptions :
    FailureApplied(
      on_body_translated(Self, msg, active_thread_id, config),
      on_body_translated(Self, [msg EXCEPT !.translated = Some(<<"c">>),
                                           !.error = None],
                         active_thread_id, config),
      msg)

\* A failure was shown, the cells deferred behind it were flushed after it,
\* and the reasoning cell among them opened the next barrier.
C15_Witness ==
  /\ \E i \in ErrorCells(app_events) : i < Len(app_events)
  /\ body_translation_barrier # None
  /\ Unwrap(body_translation_barrier).request_id = 1
  /\ Events("timeout", 0) = {}

\* The call has returned.
Returned == runner.pc = "done"
Result == Unwrap(runner.result)

\* C17: for every timeout T, a child that is still running T milliseconds
\* after it was spawned makes the call fail with Timeout{timeout_ms = T}; when
\* Timeout is returned the child has been killed and its exit awaited; and
\* whatever the call returns, the child is not left running.
C17_TimeoutKillsChild ==
  /\ (/\ runner.pc \notin {"not_called", "done"}
      /\ runner.child = "running"
      /\ runner.clock >= runner.timeout) =>
        /\ poll(runner).pc = "done"
        /\ poll(runner).result = Some(Timeout(runner.timeout))
        /\ poll(runner).child = "killed"
        /\ poll(runner).awaited
  /\ (Returned /\ Result.kind = "Timeout") =>
        /\ Result.n = runner.timeout
        /\ runner.timeout \in Timeouts
        /\ runner.child \in {"killed", "exited"}
        /\ runner.awaited
  /\ (Returned /\ runner.spawned = 1 /\ runner.exited_at = None) =>
        /\ runner.child = "killed"
        /\ runner.clock >= runner.timeout => Result = Timeout(runner.timeout)
  /\ Returned => runner.child # "running"

\* The child has slept through the longest timeout: the call returned
\* Timeout with the child killed, its exit awaited and both drains aborted.
C17_Witness ==
  /\ Returned
  /\ Result = Timeout(MaxTimeout)
  /\ runner.child = "killed"
  /\ runner.awaited
  /\ runner.stdout_task.state = "aborted"
  /\ runner.stderr_task.state = "aborted"

\* The child wrote more than the ceiling of the stream.
Exceeded(stream) == runner.written[stream] > ceiling_of(stream)

\* The child exited by itself before the deadline of the call.
ExitedBeforeDeadline ==
  /\ runner.exited_at # None
  /\ Unwrap(runner.exited_at) < runner.timeout

C20_CeilingRegardlessOfTiming ==
  (/\ Returned
   /\ \E stream \in {"stdout", "stderr"} :
        /\ Exceeded(stream)
        /\ task_of(runner, stream).state = "too_large") =>
    Result.kind = "OutputTooLarge"

\* The stdout drain found the output too large, the child ran on to the
\* deadline, and the call returned Timeout.
C20_Witness ==
  /\ Returned
  /\ Exceeded("stdout")
  /\ runner.stdout_task.state = "too_large"
  /\ runner.exited_at = None
  /\ Result = Timeout(runner.timeout)

\* The reasoning cells of the host that went to the UI sink.
SentReasoningCells ==
  {app_events[j].id : j \in {k \in DOMAIN app_events : app_events[k].kind = "reasoning"}}

\* C16: nothing is retried.  Every dispatch is the one dispatch of a
\* reasoning cell of the host, made as the cell goes to the UI sink (at its
\* insertion when Idle, or as it is popped in a flush), and no cell goes there
\* twice; every request is opened once, has one task, and is not opened or
\* given a task again after it failed, timed out or went stale; and one
\* translate call spawns the external program at most once.
C16_NoAutomaticRetries ==
  /\ \A i \in DOMAIN history :
       history[i].ev = "open" =>
         /\ i > 1
         /\ history[i - 1].ev = "emit"
         /\ history[i - 1].id \in SentReasoningCells
  /\ \A i \in DOMAIN history :
       history[i].ev = "emit" /\ history[i].id # 0 =>
         Events("emit", history[i].id) = {i}
  /\ \A id \in 0..(body_translation_seq - 1) :
       /\ Cardinality(Events("open", id)) = 1
       /\ posted[id + 1] + Cardinality(TasksOf(id)) = 1
       /\ Cardinality(Events("spawn", id)) <= 1
       /\ (Events("apply", id) \cup Events("timeout", id)) # {} => id \notin BarrierId
  /\ Cardinality({i \in DOMAIN history : history[i].ev = "open"})
       <= Cardinality(SentReasoningCells)
  /\ runner.spawned <= 1

\* The first request failed and its failure was shown; the reasoning cell
\* deferred behind it was popped by the flush and dispatched as the second
\* request; each request spawned its program once.
C16_Witness ==
  /\ ErrorCells(app_events) # {}
  /\ Events("apply", 0) # {}
  /\ Events("spawn", 0) # {}
  /\ Events("spawn", 1) # {}
  /\ body_translation_seq = 2

\* translate_text has returned; what it returned.
TranslateReturned == runner.pc = "returned"
Output == Unwrap(runner.output)

\* What the program of the call writes to a stream, decoded and trimmed.
TrimmedText(bytes) == trim(from_utf8_lossy(bytes))

\* p is the preview of the stream: at most MAX_CHARS characters of the
\* trimmed text, followed by the ellipsis exactly when the trimmed text has
\* more than MAX_CHARS characters.
IsPreviewOf(p, trimmed) ==
  IF Len(trimmed) > MAX_CHARS
    THEN /\ Len(p) = MAX_CHARS + 1
         /\ p[MAX_CHARS + 1] = "U+2026"
         /\ \A i \in 1..MAX_CHARS : p[i] = trimmed[i]
  ELSE p = trimmed

\* translate_text failed with NonZeroExit carrying the code of the child and
\* the previews of the two streams, and the message shows them.
FailedWithPreviews ==
  /\ Output.kind = "NonZeroExit"
  /\ Output.code = runner.code
  /\ IsPreviewOf(Output.stderr_preview,
                 TrimmedText(Unwrap(runner.program).stderr_bytes))
  /\ IsPreviewOf(Output.stdout_preview,
                 TrimmedText(Unwrap(runner.program).stdout_bytes))
  /\ Contains(to_string(Output), Chars("exited non-zero"))
  /\ Contains(to_string(Output), Output.stderr_preview)
  /\ Unwrap(runner.program).stderr_bytes = Chars(" boom\n") =>
       /\ Output.stderr_preview = Chars("boom")
       /\ Contains(to_string(Output), Chars("stderr=boom stdout="))

\* The child exited by itself before the deadline with a code other than 0
\* and both streams are within their ceilings.
ExitedNonZeroWithinCeilings ==
  /\ TranslateReturned
  /\ ExitedBeforeDeadline
  /\ runner.code # 0
  /\ ~Exceeded("stdout") /\ ~Exceeded("stderr")

\* The request and its newline were written and stdin was closed by the
\* call: the drains were spawned.
RequestWritten == runner.stdout_task.state # "none"

Program == Unwrap(runner.program)
Stdout == Program.stdout_bytes

\* The child took the request, exited with 0 before the deadline and stayed
\* within both ceilings.
ConsumedAndExitedZero ==
  /\ TranslateReturned
  /\ RequestWritten
  /\ runner.request \in {Some(request) : request \in Requests}
  /\ Program.stdin = "accepts"
  /\ ExitedBeforeDeadline
  /\ runner.code = 0
  /\ ~Exceeded("stdout") /\ ~Exceeded("stderr")

\* The well-formed answers among StdoutTexts with the text each of them
\* carries: version 1 and a text that is not blank.
WellFormedAnswers ==
  {[stdout |-> Chars("{\"schema_version\":1,\"text\":\" hi \"}"),
    text |-> <<" ", "h", "i", " ">>, trimmed |-> <<"h", "i">>],
   [stdout |-> Chars(" {\"text\": \"a\\nb\", \"note\": \"x\", \"schema_version\": 1}\n"),
    text |-> <<"a", "\n", "b">>, trimmed |-> <<"a", "\n", "b">>]}

IsBlank(text) == \A i \in DOMAIN text : IsWhitespace(text[i])

\* C23: the stdout of a run that succeeded is validated in this order: when
\* it does not parse as a response, InvalidJson with the preview of stdout;
\* else when its schema_version is not the expected one,
\* SchemaVersionMismatch with both versions, also when the text is empty;
\* else when the text is blank, EmptyTranslation; else the trimmed text.  A
\* failure of the runner is what translate_text returns.
C23_ValidationOrder ==
  TranslateReturned =>
    /\ Result.kind = "Ok" =>
         /\ runner.stdout_task.buf = Len(Stdout)
         /\ IF from_slice(Stdout) = None
              THEN /\ Output.kind = "InvalidJson"
                   /\ IsPreviewOf(Output.stdout_preview, TrimmedText(Stdout))
            ELSE IF Unwrap(from_slice(Stdout)).schema_version # 1
              THEN Output = [kind |-> "SchemaVersionMismatch", expected |-> 1,
                             actual |-> Unwrap(from_slice(Stdout)).schema_version]
            ELSE IF IsBlank(Unwrap(from_slice(Stdout)).text)
              THEN Output = [kind |-> "EmptyTranslation"]
            ELSE Output.kind = "Translated"
         /\ Stdout = Chars(" nope\n") =>
              Output = [kind |-> "InvalidJson", stdout_preview |-> Chars("nope")]
         /\ Stdout \in {<<>>, Chars("{\"text\":\"hi\"}"),
                        Chars("{\"schema_version\":1,\"text\":\"hi\"} x")} =>
              Output.kind = "InvalidJson"
         /\ Stdout = Chars("{\"schema_version\":2,\"text\":\"\"}") =>
              Output = [kind |-> "SchemaVersionMismatch", expected |-> 1, actual |-> 2]
         /\ Stdout = Chars("{\"schema_version\":2,\"text\":\"hi\"}") =>
              Output = [kind |-> "SchemaVersionMismatch", expected |-> 1, actual |-> 2]
         /\ Stdout = Chars("{\"schema_version\":1,\"text\":\"  \"}") =>
              Output = [kind |-> "EmptyTranslation"]
    /\ Result.kind = "NonZeroExit" =>
         Output.kind = "NonZeroExit" /\ Output.code = Result.n
    /\ Result.kind \notin {"Ok", "NonZeroExit"} =>
         /\ Output = Result
         /\ Result.kind \in {"EmptyCommand", "Spawn", "WriteStdin", "ReadOutput",
                             "OutputTooLarge", "Timeout"}

\* The answer had the wrong version and an empty text: the version was
\* reported.
C23_Witness ==
  /\ TranslateReturned
  /\ Result.kind = "Ok"
  /\ Stdout = Chars("{\"schema_version\":2,\"text\":\"\"}")
  /\ Output.kind = "SchemaVersionMismatch"

\* Nothing has happened in r but the return of EmptyCommand: no request was
\* built, no process spawned and no deadline computed.
OnlyEmptyCommand(r) ==
  /\ r.pc = "done"
  /\ r.result = Some(EmptyCommand)
  /\ r.request = None
  /\ r.program = None
  /\ r.spawned = 0
  /\ r.child = "none"
  /\ r.timeout = 0 /\ r.clock = 0
  /\ r.stdout_task = NoTask /\ r.stderr_task = NoTask

\* C24: an empty command fails with EmptyCommand before anything else: for
\* every request, timeout and program, translate_text and
\* run_translation_command return EmptyCommand with no request built for a
\* process, no process spawned and no deadline started, and a call that
\* returned EmptyCommand has done nothing else.
C24_EmptyCommandFirst ==
  /\ runner.pc = "not_called" =>
       \A request \in Requests, timeout \in Timeouts, program \in TextPrograms :
         /\ OnlyEmptyCommand(translate_text(runner, request, timeout, TRUE, program))
         /\ OnlyEmptyCommand(run_translation_command(runner, timeout, TRUE, program))
         /\ ~OnlyEmptyCommand(translate_text(runner, request, timeout, FALSE, program))
  /\ (runner.result = Some(EmptyCommand) /\ runner.pc = "done") =>
       OnlyEmptyCommand(runner)
  /\ (TranslateReturned /\ Result = EmptyCommand) =>
       /\ Output = EmptyCommand
       /\ to_string(Output) = Chars("translation command is empty")
       /\ OnlyEmptyCommand([runner EXCEPT !.pc = "done", !.output = None])

\* translate_text was called with an empty command and returned
\* EmptyCommand; no process was spawned.
C24_Witness ==
  /\ TranslateReturned
  /\ Output = EmptyCommand
  /\ runner.spawned = 0
  /\ runner.request = None

\* The program writes to one stream only, within the ceiling of the stream,
\* and takes the request.
WritesOneStream ==
  /\ runner.program # None
  /\ RequestWritten
  /\ Program.stdin = "accepts"
  /\ Program.stdout = 0 \/ Program.stderr = 0
  /\ Program.stdout <= MAX_TRANSLATION_STDOUT_BYTES
  /\ Program.stderr <= MAX_TRANSLATION_STDERR_BYTES

Suspended ==
  runner.pc \in {"write_request", "write_newline", "wait_child",
                 "join_stdout", "join_stderr"}

\* The call polled until it has passed its five suspension points, no time
\* passing in between.
polled(r) == poll(poll(poll(poll(poll(r)))))

\* C26: one deadline spans every phase.  The timeout of a call is fixed when
\* the child is spawned and stays as it is until the call returns; at every
\* suspension point (the two writes, the wait, the two joins) a call that has
\* reached the deadline returns when it is polled, with Timeout unless what
\* it waited for is there, waiting for nothing but the kill and the reaping
\* of the child; and every call returns.
C26_OneDeadline ==
  /\ [](Suspended =>
         /\ runner.timeout \in Timeouts
         /\ runner.clock <= runner.timeout
         /\ runner.clock >= runner.timeout =>
              /\ polled(runner).pc = "done"
              /\ polled(runner).child # "running"
              /\ poll(runner).pc = "done" => polled(runner) = poll(runner)
              /\ (poll(runner).pc = "done" /\ poll(runner).child = "killed") =>
                   poll(runner).result = Some(Timeout(runner.timeout)))
  /\ [][Suspended => runner'.timeout = runner.timeout]_vars
  /\ (runner.pc # "not_called") ~> Returned

\* The child never took the request and the call returned Timeout from
\* its first write, at the deadline.
C26_Witness ==
  /\ Returned
  /\ Result = Timeout(runner.timeout)
  /\ runner.program # None
  /\ Program.stdin = "blocks"
  /\ runner.clock = runner.timeout
  /\ runner.stdout_task = NoTask

\* The milliseconds an override stands for, for the values of WaitEnvValues:
\* " 0" is 0 and "2\n" is 2; the others are no unsigned number.
OverrideOf(env) ==
  IF env = Some(<<" ", "0">>) THEN Some(0)
  ELSE IF env = Some(<<"2", "\n">>) THEN Some(2)
  ELSE None

\* The wait of a barrier opened with the override env and the configured
\* wait w.
EffectiveWait(env, w) == IF OverrideOf(env) # None THEN Unwrap(OverrideOf(env)) ELSE w

\* A barrier is opened by the step.
Opens ==
  /\ body_translation_barrier' # None
  /\ \/ body_translation_barrier = None
     \/ Unwrap(body_translation_barrier).request_id
          # Unwrap(body_translation_barrier').request_id

\* C27: the wait of a barrier is fixed when the barrier is opened.  It is the
\* override of the environment when that is set and is, once trimmed, an
\* unsigned number, and ui_max_wait of the configuration otherwise; the
\* deadline is the instant of the opening plus the wait; and as long as the
\* barrier is open neither moves, whatever the environment and the
\* configurations of later calls are.
C27_MaxWaitFixedAtOpening ==
  /\ [](body_translation_barrier = None =>
         \A w \in {1, 2}, th \in ThreadIds :
           LET opened == Unwrap(begin_body_translation_barrier(Self, w, th, None)
                                  .s.body_translation_barrier)
           IN  /\ opened.max_wait = EffectiveWait(env_max_wait, w)
               /\ opened.deadline = now + EffectiveWait(env_max_wait, w))
  /\ [][Opens =>
         /\ Unwrap(body_translation_barrier').max_wait
              \in {EffectiveWait(env_max_wait, w) : w \in {1, 2}}
         /\ Unwrap(body_translation_barrier').deadline
              = now + Unwrap(body_translation_barrier').max_wait]_vars
  /\ [][(body_translation_barrier # None /\ ~Opens) =>
         \/ body_translation_barrier' = None
         \/ body_translation_barrier' = body_translation_barrier]_vars

\* A barrier opened under the override " 0" is still open with its wait of
\* 0 after the override was unset.
C27_Witness ==
  /\ body_translation_barrier # None
  /\ Unwrap(body_translation_barrier).max_wait = 0
  /\ Unwrap(body_translation_barrier).deadline = now
  /\ env_max_wait = None

\* The first message of the channel is the completion of the open barrier.
CompletionWaiting ==
  /\ body_translation_barrier # None
  /\ body_translation_results # <<>>
  /\ Head(body_translation_results).request_id
       = Unwrap(body_translation_barrier).request_id
  /\ Head(body_translation_results).thread_id
       = Unwrap(body_translation_barrier).thread_id

\* The orchestrator with the first message taken from the channel.
Received == [Self EXCEPT !.body_translation_results = Tail(@)]

\* C28: a switch of the active thread while a barrier is open leaves the
\* barrier open, the tasks running and the queue and the history as they
\* are; the completion of the barrier drained while another thread is active
\* is dropped with the barrier still open and nothing emitted; and drained
\* while the thread of the barrier is active, it closes the barrier and is
\* applied.
C28_ThreadSwitchWhilePending ==
  /\ [][(body_translation_barrier # None /\ active_thread_id' # active_thread_id) =>
         /\ body_translation_barrier' = body_translation_barrier
         /\ tasks' = tasks
         /\ deferred_history_cells' = deferred_history_cells
         /\ app_events' = app_events
         /\ body_translation_results' = body_translation_results
         /\ history' = history]_vars
  /\ [](CompletionWaiting =>
         \A config \in ConfigOptions :
           LET msg == Head(body_translation_results)
               sent == on_body_translated(Received, msg, active_thread_id, config)
           IN  IF active_thread_id = Some(Unwrap(body_translation_barrier).thread_id)
                 THEN /\ sent.s.body_translation_barrier
                           # body_translation_barrier
                      /\ Len(sent.s.history) > Len(history)
                      /\ sent.s.history[Len(history) + 1]
                           = [ev |-> "apply", id |-> msg.request_id]
               ELSE /\ sent.s = Received
                    /\ sent.result = NoResult)
  /\ [][(/\ CompletionWaiting
          /\ active_thread_id # Some(Unwrap(body_translation_barrier).thread_id)
          /\ now < Unwrap(body_translation_barrier).deadline
          /\ body_translation_results' = <<>>) =>
           /\ body_translation_barrier' = body_translation_barrier
           /\ app_events' = app_events
           /\ deferred_history_cells' = deferred_history_cells
           /\ tasks' = tasks]_vars

\* The barrier of thread t1 is open with its task still running and a cell
\* in the queue while t2 is the active thread.
C28_Witness ==
  /\ body_translation_barrier # None
  /\ Unwrap(body_translation_barrier).thread_id = "t1"
  /\ active_thread_id = Some("t2")
  /\ \E task \in tasks :
       task.request_id = Unwrap(body_translation_barrier).request_id
  /\ deferred_history_cells # <<>>

\* How often the deprecation warning for the key was logged.
Emitted(old_path) ==
  Cardinality({i \in DOMAIN resolver.warnings : resolver.warnings[i] = old_path})

\* C29: for each deprecated path the warning is logged at most once in the
\* process, whatever the threads that call with the same key do at the same
\* time; one thread at a time is between lock and return; and a poisoned
\* lock stops no call: the call goes on with the set the panicking thread
\* left and, when it returns, the key is in the set.
C29_WarnOnce ==
  /\ \A old_path \in DeprecatedPaths :
       /\ Emitted(old_path) <= 1
       /\ Emitted(old_path) = 1 => old_path \in resolver.WARNED
  /\ \A c, d \in Callers :
       (resolver.calls[c].pc = "locked" /\ resolver.calls[d].pc = "locked") => c = d
  /\ \A call \in resolver.returned : call.old_path \in resolver.WARNED
  /\ \A c \in Callers :
       (resolver.calls[c].pc = "lock" /\ resolver.lock = None) =>
         /\ lock(resolver, c).calls[c].pc = "locked"
         /\ insert_and_warn(lock(resolver, c), c).calls[c].pc = "idle"
         /\ resolver.calls[c].old_path
              \in insert_and_warn(lock(resolver, c), c).WARNED
         /\ insert_and_warn(lock(resolver, c), c).WARNED
              = resolver.WARNED \cup {resolver.calls[c].old_path}

\* A thread panicked holding the lock before it had inserted the key; the
\* call of another thread took the poisoned lock, inserted the key, logged
\* the warning and returned.
C29_Witness ==
  /\ resolver.poisoned
  /\ \E call \in resolver.returned :
       /\ call.poisoned
       /\ call.old_path \in resolver.WARNED
       /\ Emitted(call.old_path) = 1
  /\ \E c \in Callers : resolver.calls[c].pc = "panicked"

\* The sources of the configuration that was resolved and the result.
Sources == Unwrap(resolver.sources)
Resolved == Unwrap(resolver.resolved)

\* The new section of a scope has agent_reasoning, and it can be read.
HasNew(plugins_translation) ==
  /\ plugins_translation # None
  /\ Unwrap(plugins_translation).type = "table"
  /\ Unwrap(plugins_translation).agent_reasoning # None

WellFormed(plugins_translation) ==
  \/ plugins_translation = None
  \/ /\ Unwrap(plugins_translation).type = "table"
     /\ HasNew(plugins_translation) =>
          ~Unwrap(Unwrap(plugins_translation).agent_reasoning).unknown_field

\* The legacy section of a scope has agent_reasoning.
HasLegacy(legacy_translation) ==
  legacy_translation # None /\ Unwrap(legacy_translation).agent_reasoning # None

\* The value of a setting in a scope that does not set both sections, None
\* when the scope does not set it.
InScope(plugins_translation, legacy_translation, name) ==
  IF HasNew(plugins_translation)
    THEN Unwrap(Unwrap(plugins_translation).agent_reasoning)[name]
  ELSE IF HasLegacy(legacy_translation)
    THEN Unwrap(Unwrap(legacy_translation).agent_reasoning)[name]
  ELSE None

\* The setting of the profile when the profile sets it, else the global one.
Chosen(name) ==
  IF InScope(Sources.profile_plugins_translation,
             Sources.profile_legacy_translation, name) # None
    THEN InScope(Sources.profile_plugins_translation,
                 Sources.profile_legacy_translation, name)
  ELSE InScope(Sources.global_plugins_translation,
               Sources.global_legacy_translation, name)

GlobalBoth ==
  HasNew(Sources.global_plugins_translation) /\ HasLegacy(Sources.global_legacy_translation)
ProfileBoth ==
  HasNew(Sources.profile_plugins_translation) /\ HasLegacy(Sources.profile_legacy_translation)

\* C30: a scope, global or the active profile, that sets both the legacy and
\* the new agent_reasoning section is rejected with InvalidData and a
\* message that names both paths; otherwise command, timeout_ms and
\* ui_max_wait_ms are each taken from the profile when the profile sets it,
\* else from the global scope, else from the default; and the feature is off
\* exactly when the command so chosen is absent or empty.
C30_ResolvedConfig ==
  resolver.resolved # None =>
    /\ GlobalBoth =>
         /\ ~Resolved.ok
         /\ Resolved.kind = "InvalidData"
         /\ Contains(Resolved.message, "[plugins.translation.agent_reasoning]")
         /\ Contains(Resolved.message, "[translation.agent_reasoning]")
    /\ (ProfileBoth /\ ~GlobalBoth) =>
         /\ ~Resolved.ok
         /\ Resolved.kind = "InvalidData"
         /\ Contains(Resolved.message,
                     "[profiles.dev.plugins.translation.agent_reasoning]")
         /\ Contains(Resolved.message, "[profiles.dev.translation.agent_reasoning]")
    /\ (/\ ~GlobalBoth /\ ~ProfileBoth
        /\ WellFormed(Sources.global_plugins_translation)
        /\ WellFormed(Sources.profile_plugins_translation)) =>
         /\ Resolved.ok
         /\ Resolved.value = None <=> Chosen("command") \in {None, Some(<<>>)}
         /\ Resolved.value # None =>
              /\ Unwrap(Resolved.value).command = Unwrap(Chosen("command"))
              /\ Unwrap(Resolved.value).timeout =
                   IF Chosen("timeout_ms") # None THEN Unwrap(Chosen("timeout_ms"))
                   ELSE DEFAULT_AGENT_REASONING_TRANSLATION_TIMEOUT_MS
              /\ Unwrap(Resolved.value).ui_max_wait =
                   IF Chosen("ui_max_wait_ms") # None
                     THEN Unwrap(Chosen("ui_max_wait_ms"))
                   ELSE DEFAULT_AGENT_REASONING_TRANSLATION_UI_MAX_WAIT_MS
    /\ (/\ Sources.active_profile_name = Some("dev")
        /\ Sources.global_plugins_translation = None
        /\ Sources.global_legacy_translation
             = Some([agent_reasoning |-> Some(AgentReasoningTranslationSettingsToml(
                       Some(<<"python3", "/tmp/translate.py">>), Some("1234"), None))])
        /\ Sources.profile_legacy_translation = None
        /\ Sources.profile_plugins_translation
             = Some([type |-> "table",
                     agent_reasoning |-> Some(
                       [unknown_field |-> FALSE,
                        command |-> Some(<<"python3", "/tmp/translate-dev.py">>),
                        timeout_ms |-> None, ui_max_wait_ms |-> Some("3456")])])) =>
         Resolved = Ok(Some([command |-> <<"python3", "/tmp/translate-dev.py">>,
                             timeout |-> "1234", ui_max_wait |-> "3456"]))

\* The profile sets an empty command over the command of the global scope:
\* the feature is off.
C30_Witness ==
  /\ resolver.resolved # None
  /\ Resolved = Ok(None)
  /\ InScope(Sources.profile_plugins_translation,
             Sources.profile_legacy_translation, "command") = Some(<<>>)
  /\ InScope(Sources.global_plugins_translation,
             Sources.global_legacy_translation, "command")
       = Some(<<"python3", "/tmp/translate.py">>)

\* Where the log records the opening of the barrier resolved at i.
OpenedAt(i) ==
  CHOOSE o \in 1..i : history[o] = [ev |-> "open", id |-> history[i].id]

\* How many cells the UI sink had received after the first n events.
EmittedAfter(n) == Cardinality({j \in 1..n : history[j].ev = "emit"})

\* The cells whose insertion was requested while the barrier resolved at i
\* was open.
QueuedBehind(i) ==
  {history[r].id : r \in {j \in OpenedAt(i)..i : history[j].ev = "request"}}

\* C31: when a barrier is resolved, by its completion or by the timeout, the
\* cell made for it (translation, failure or placeholder) goes straight to
\* the UI sink and never into the queue; it is emitted right after the
\* barrier was cleared, before every cell that was queued behind the barrier,
\* and the queue is flushed only after it: nothing is emitted while the
\* barrier is open.
C31_ResolutionUnitFirst ==
  /\ TranslationCells(deferred_history_cells) = {}
  /\ \A i \in AllResolutions :
       /\ i < Len(history)
       /\ history[i + 1] = [ev |-> "emit", id |-> 0]
       /\ history[i].ev = "timeout" =>
            app_events[EmittedAfter(i + 1)].kind = "translation_error"
       /\ app_events[EmittedAfter(i + 1)].kind \in {"translation", "translation_error"}
       /\ \A j \in OpenedAt(i)..i : history[j].ev # "emit"
       /\ \A id \in QueuedBehind(i) :
            /\ Occurrences(app_events, id) + Occurrences(deferred_history_cells, id) = 1
            /\ \A n \in DOMAIN app_events :
                 app_events[n].id = id => n > EmittedAfter(i + 1)
            /\ \A j \in DOMAIN history :
                 history[j] = [ev |-> "emit", id |-> id] => j > i + 1

\* A completion and a timeout each resolved a barrier with a cell queued
\* behind it, and both queued cells were flushed after the barrier's cell.
C31_Witness ==
  \E i, k \in AllResolutions :
    /\ history[i].ev = "apply"
    /\ history[k].ev = "timeout"
    /\ \E id \in QueuedBehind(i) : IsEmitted(id)
    /\ \E id \in QueuedBehind(k) : IsEmitted(id)

\* C32: between the orchestrator's operations a queue that is not empty has
\* an open barrier in front of it: when no barrier is open the queue is
\* empty, so a cell inserted then goes to the UI sink behind every cell
\* inserted before it.
C32_QueueImpliesBarrier ==
  /\ deferred_history_cells # <<>> => IsSome(body_translation_barrier)
  /\ ~IsSome(body_translation_barrier) =>
       \A md \in CellMarkdowns, config \in ConfigOptions :
         /\ emit_history_cell(Self, HostCell(NextUnitId, md)).app_events
              = Append(app_events, HostCell(NextUnitId, md))
         /\ SubSeq(emit_history_cell_with_translation_hook(
                     Self, config, active_thread_id,
                     HostCell(NextUnitId, md)).app_events,
                   1, Len(app_events) + 1)
              = Append(app_events, HostCell(NextUnitId, md))
         /\ UnitIds(app_events) = [i \in 1..(NextUnitId - 1) |-> i]

\* A resolution flushed a queue of two cells: no barrier is open and the queue
\* is empty.
C32_Witness ==
  /\ ~IsSome(body_translation_barrier)
  /\ deferred_history_cells = <<>>
  /\ \E i \in AllResolutions : Cardinality(QueuedBehind(i)) = 2

\* The barrier of request `id` is the open one.
IsOpen(id) == BarrierId = {id}

\* C33: while draw ticks keep occurring every barrier that was opened is
\* cleared in the end, whether or not its completion is ever honoured (the
\* task never sends, or its message is received while another thread is
\* active and dropped); a tick at or after the barrier's deadline that has
\* not honoured its completion clears it by the timeout, so the barrier is
\* not open for ever.
C33_BarrierEventuallyCleared ==
  /\ [](\A config \in ConfigOptions :
         LET pre == Drained(config)
         IN  (/\ IsSome(pre.body_translation_barrier)
              /\ now >= Unwrap(pre.body_translation_barrier).deadline) =>
               LET post == on_draw_tick(Self, active_thread_id, config).s
               IN  /\ post.body_translation_barrier # pre.body_translation_barrier
                   /\ post.history[Len(pre.history) + 1]
                        = [ev |-> "timeout",
                           id |-> Unwrap(pre.body_translation_barrier).request_id])
  /\ \A id \in 0..MaxPendingCells : IsOpen(id) ~> ~IsOpen(id)

\* The message of a request was sent and dropped while the other thread was
\* active; its barrier was cleared by the timeout.
C33_Witness ==
  /\ active_thread_id = Some("t2")
  /\ body_translation_results = <<>>
  /\ \E i \in DOMAIN history :
       /\ history[i].ev = "timeout"
       /\ posted[history[i].id + 1] = 1
       /\ \A j \in DOMAIN history : history[j].ev # "apply"

\* The resolutions of request `id` that the orchestrator `post` has logged
\* since the present state.
NewEvents(post, id) ==
  {post.history[i].ev : i \in {j \in (Len(history) + 1)..Len(post.history) :
                                  /\ post.history[j].id = id
                                  /\ post.history[j].ev \in {"apply", "timeout"}}}

\* Some message of the channel is honoured by the drain of the next tick for
\* the barrier that is open now.
CompletionWaits(config) ==
  \E k \in 0..(Len(body_translation_results) - 1) :
    /\ AfterReceiving(k, config).body_translation_barrier = body_translation_barrier
    /\ Matches(AfterReceiving(k, config), body_translation_results[k + 1])

\* C34: a tick drains the completion channel before it looks at the deadline:
\* when the completion of the open barrier waits in the channel and the
\* deadline has passed, the tick applies the completion and emits no timeout
\* placeholder for that barrier; and a barrier is cleared before its deadline
\* by nothing but its own completion.
C34_DrainBeforeDeadline ==
  /\ [](IsSome(body_translation_barrier) =>
          \A config \in ConfigOptions :
            LET barrier == Unwrap(body_translation_barrier)
                tick    == on_draw_tick(Self, active_thread_id, config)
            IN  /\ CompletionWaits(config) =>
                     /\ NewEvents(tick.s, barrier.request_id) = {"apply"}
                     /\ tick.s.body_translation_barrier # body_translation_barrier
                     /\ tick.result.needs_redraw
                     /\ \A n \in (Len(app_events) + 1)..Len(tick.s.app_events) :
                          tick.s.app_events[n].text # TimeoutReason(barrier.max_wait)
                /\ (~CompletionWaits(config) /\ now < barrier.deadline) =>
                     tick.s.body_translation_barrier = body_translation_barrier)
  /\ [][(IsSome(body_translation_barrier)
           /\ body_translation_barrier' # body_translation_barrier) =>
          \/ Logged[1] = [ev |-> "apply",
                          id |-> Unwrap(body_translation_barrier).request_id]
          \/ /\ Logged[1] = [ev |-> "timeout",
                             id |-> Unwrap(body_translation_barrier).request_id]
             /\ now >= Unwrap(body_translation_barrier).deadline]_vars

\* The completion of the only barrier ever opened was applied by a tick at
\* the barrier's deadline, and nothing timed out.
C34_Witness ==
  /\ body_translation_seq = 1
  /\ ~IsSome(body_translation_barrier)
  /\ now = 1
  /\ \E i \in DOMAIN history : history[i] = [ev |-> "apply", id |-> 0]
  /\ \A i \in DOMAIN history : history[i].ev # "timeout"

\* The orchestrator after the first k messages of the channel were taken and
\* handled one by one, each against what the one before it left.
RECURSIVE TakenOneByOne(_, _)
TakenOneByOne(k, config) ==
  IF k = 0 THEN Self
  ELSE on_body_translated(
         [TakenOneByOne(k - 1, config) EXCEPT !.body_translation_results = Tail(@)],
         body_translation_results[k], active_thread_id, config).s

\* The k-th message of the channel is honoured when its turn comes.
Honoured(k, config) ==
  Matches(TakenOneByOne(k - 1, config), body_translation_results[k])

\* The header update an honoured message produces: the bilingual title when
\* the message has a title and a translated one and its title is the one
\* shown.
HeaderOf(msg) ==
  IF /\ IsSome(msg.translated)
     /\ IsSome(msg.title)
     /\ IsSome(extract_first_bold(Unwrap(msg.translated)))
     /\ current_reasoning_title_raw = msg.title
    THEN Some(format_bilingual_title(
                Unwrap(msg.title), Unwrap(extract_first_bold(Unwrap(msg.translated)))))
    ELSE None

\* The messages of the channel that are honoured and produce a header.
WithHeader(config) ==
  {k \in DOMAIN body_translation_results :
     Honoured(k, config) /\ IsSome(HeaderOf(body_translation_results[k]))}

\* The timeout fires in the tick: the barrier the drain leaves is at or past
\* its deadline.
TimeoutFires(config) ==
  LET left == TakenOneByOne(Len(body_translation_results), config)
  IN  /\ IsSome(left.body_translation_barrier)
      /\ now >= Unwrap(left.body_translation_barrier).deadline

\* C35: a draw tick of an enabled orchestrator takes every message that is in
\* the completion channel, in channel order, and handles each against the
\* barrier the one before it left; it asks for a redraw exactly when a
\* message was honoured or the timeout fired, and the header update it
\* returns is that of the last honoured message that produced one.
C35_TickDrainsChannel ==
  enabled =>
    \A config \in ConfigOptions :
      LET drained == drain_body_translation_results(Self, active_thread_id, config)
          tick    == on_draw_tick(Self, active_thread_id, config)
          n       == Len(body_translation_results)
      IN  /\ drained.s = TakenOneByOne(n, config)
          /\ drained.s.body_translation_results = <<>>
          /\ tick.s.body_translation_results = <<>>
          /\ SelectSeq(SubSeq(tick.s.history, Len(history) + 1,
                              Len(drained.s.history)),
                       LAMBDA e : e.ev = "apply")
               = [i \in 1..Cardinality({k \in 1..n : Honoured(k, config)}) |->
                    [ev |-> "apply",
                     id |-> body_translation_results[
                              CHOOSE k \in 1..n :
                                /\ Honoured(k, config)
                                /\ Cardinality({j \in 1..k : Honoured(j, config)}) = i
                            ].request_id]]
          /\ tick.result.needs_redraw
               <=> ((\E k \in 1..n : Honoured(k, config)) \/ TimeoutFires(config))
          /\ drained.result.needs_redraw <=> (\E k \in 1..n : Honoured(k, config))
          /\ tick.result.status_header_update =
               IF WithHeader(config) = {} THEN None
               ELSE HeaderOf(body_translation_results[
                      CHOOSE k \in WithHeader(config) :
                        \A j \in WithHeader(config) : j <= k])

\* Two messages wait in the channel: the first is honoured and produces a
\* header, the second belongs to a request that timed out and is dropped;
\* the tick returns the header of the first and asks for a redraw.
C35_Witness ==
  /\ Len(body_translation_results) = 2
  /\ \E config \in ConfigOptions :
       /\ Honoured(1, config)
       /\ ~Honoured(2, config)
       /\ WithHeader(config) = {1}
       /\ on_draw_tick(Self, active_thread_id, config).result
            = [status_header_update |-> HeaderOf(body_translation_results[1]),
               needs_redraw |-> TRUE]

\* Reasoning texts a dispatch may be asked to translate.
DispatchTexts ==
  { <<"*", "*", "P", "*", "*", "b">>,            \* title, body
    <<" ", "*", "*", "P", "*", "*", "\n", "b", " ">>,  \* the same in blanks
    <<"*", "*", "P", "*", "*", " ", "\n">>,      \* title, blank body
    <<"*", "*", "P", "*", "*">>,                 \* title only
    <<"*", "*", "P", "*", "b">>,                 \* title not closed
    <<"*", "*", "*", "b">>,                      \* three stars
    <<"*", "*", "*", "*", "b">>,                 \* empty title, body
    <<"b">>,                                     \* no title
    <<>> }

bold_at(s, i) == i >= 1 /\ i < Len(s) /\ s[i] = "*" /\ s[i + 1] = "*"

\* The trimmed text has a first pair of bold markers and something that is
\* not blank after the closing one.
HasBodyAfterTitle(md) ==
  \E i, j \in 1..Len(trim(md)) :
    /\ bold_at(trim(md), i)
    /\ \A k \in 1..(i - 1) : ~bold_at(trim(md), k)
    /\ j >= i + 2
    /\ bold_at(trim(md), j)
    /\ \A k \in (i + 2)..(j - 1) : ~bold_at(trim(md), k)
    /\ \E k \in (j + 2)..Len(trim(md)) : ~IsWhitespace(trim(md)[k])

\* C36: a dispatch request opens a barrier only when the orchestrator is
\* enabled, a configuration and a thread id are given and the reasoning text
\* has a body that is not blank after its bold title; when one of these fails
\* the request changes nothing (barrier, request-id counter, tasks, queue and
\* title cache are as before).  When all hold and no barrier is open, the
\* barrier is opened under the next request id and its task is spawned.
C36_DispatchPreconditions ==
  \A md \in DispatchTexts \cup ReasoningTexts, config \in ConfigOptions,
     thread_id \in ThreadOptions :
    LET post == maybe_translate_reasoning_body(Self, config, thread_id, md)
    IN  IF enabled /\ IsSome(config) /\ IsSome(thread_id) /\ HasBodyAfterTitle(md)
          THEN IF IsSome(body_translation_barrier) THEN post = Self
               ELSE /\ IsSome(post.body_translation_barrier)
                    /\ Unwrap(post.body_translation_barrier).request_id
                         = body_translation_seq
                    /\ Unwrap(post.body_translation_barrier).thread_id
                         = Unwrap(thread_id)
                    /\ post.body_translation_seq = body_translation_seq + 1
                    /\ Cardinality(post.tasks \ tasks) = 1
                    /\ \A task \in post.tasks \ tasks :
                         /\ task.request_id = body_translation_seq
                         /\ task.full_reasoning = md
                    /\ post.deferred_history_cells = deferred_history_cells
                    /\ post.title_translation_cache = title_translation_cache
                    /\ post.app_events = app_events
          ELSE post = Self

\* An enabled orchestrator with a thread and no open barrier was asked for a
\* dispatch that opened nothing: the request is the last event of the log.
C36_Witness ==
  /\ enabled
  /\ IsSome(active_thread_id)
  /\ ~IsSome(body_translation_barrier)
  /\ history # <<>>
  /\ history[Len(history)].ev = "translate"
  /\ \E i \in DOMAIN history : history[i].ev = "open"

\* Completion messages that may lie in the channel of an orchestrator.
StrayMessages ==
  {[request_id |-> 0, thread_id |-> th, title |-> Some(<<"P">>),
    translated |-> x, error |-> IF x = None THEN Some(<<"translator timed out">>)
                                ELSE None] :
     th \in ThreadIds, x \in {None} \cup {Some(y) : y \in TranslatedTexts}}

\* C37: an orchestrator constructed disabled never leaves Idle: whatever
\* dispatches, insertions and ticks the host makes, no barrier is open, no
\* request id is taken, no task runs, the queue is empty, every inserted cell
\* is in the UI sink in request order, a message in the channel is not
\* consumed, and a tick asks for no redraw and gives no header update.
C37_DisabledStaysIdle ==
  ~enabled =>
    /\ ~IsSome(body_translation_barrier)
    /\ body_translation_seq = 0
    /\ tasks = {}
    /\ deferred_history_cells = <<>>
    /\ title_translation_cache = {}
    /\ \A i \in DOMAIN history : history[i].ev \in {"request", "translate", "emit"}
    /\ UnitIds(app_events)
         = [i \in 1..Len(app_events) |->
              history[CHOOSE r \in DOMAIN history :
                        /\ history[r].ev = "request"
                        /\ Cardinality({q \in 1..r : history[q].ev = "request"}) = i].id]
    /\ Len(app_events) = Cardinality({r \in DOMAIN history : history[r].ev = "request"})
    /\ \A md \in CellMarkdowns, config \in ConfigOptions :
         /\ emit_history_cell(Self, HostCell(NextUnitId, md))
              = SendInsertHistoryCell(Self, HostCell(NextUnitId, md))
         /\ emit_history_cell_with_translation_hook(
              Self, config, active_thread_id, HostCell(NextUnitId, md))
              = SendInsertHistoryCell(Self, HostCell(NextUnitId, md))
    /\ \A msg \in StrayMessages, config \in ConfigOptions :
         LET waiting == [Self EXCEPT !.body_translation_results = <<msg>>]
         IN  /\ on_draw_tick(waiting, active_thread_id, config)
                  = [s |-> waiting, result |-> NoResult]
             /\ drain_body_translation_results(waiting, active_thread_id, config)
                  = [s |-> waiting, result |-> NoResult]
             /\ maybe_flush_timeout(waiting, config, active_thread_id)
                  = [s |-> waiting, fired |-> FALSE]

\* A disabled orchestrator was asked for a dispatch and was handed a
\* reasoning cell through the translation hook: the cell is in the UI sink.
C37_Witness ==
  /\ ~enabled
  /\ IsSome(active_thread_id)
  /\ \E i \in DOMAIN history : history[i].ev = "translate"
  /\ \E n \in DOMAIN app_events : app_events[n].kind = "reasoning"

\* Reading has started: a drain task was spawned.
ReadingStarted ==
  runner.stdout_task.state # "none" \/ runner.stderr_task.state # "none"

NothingRead ==
  /\ runner.stdout_task = NoTask
  /\ runner.stderr_task = NoTask

InWrite == runner.pc \in {"write_request", "write_newline"}

\* C38: the runner writes the request to the child's stdin first, then one
\* newline, then closes stdin, and starts to read stdout and stderr only once
\* stdin is closed; when the deadline expires during either write the child
\* is killed and reaped and the result is Timeout, and a write error gives
\* WriteStdin with no output read.
C38_ProtocolOrder ==
  /\ runner.stdin.sent \in {<<>>, <<"request_json">>, <<"request_json", "\n">>}
  /\ runner.pc = "write_request" =>
       runner.stdin = [state |-> "open", sent |-> <<>>]
  /\ runner.pc = "write_newline" =>
       runner.stdin = [state |-> "open", sent |-> <<"request_json">>]
  /\ runner.stdin.state = "open" => InWrite /\ NothingRead
  /\ ReadingStarted =>
       /\ runner.stdin = [state |-> "closed", sent |-> <<"request_json", "\n">>]
       /\ runner.stdout_task.state # "none" /\ runner.stderr_task.state # "none"
  /\ (InWrite /\ stdin_of(runner) = "blocks" /\ runner.clock >= runner.timeout) =>
       /\ poll(runner).result = Some(Timeout(runner.timeout))
       /\ poll(runner).child = "killed"
       /\ poll(runner).awaited
       /\ poll(runner).stdout_task = NoTask /\ poll(runner).stderr_task = NoTask
  /\ (InWrite /\ stdin_of(runner) = "closed") =>
       /\ poll(runner).result = Some(WriteStdin)
       /\ poll(runner).stdout_task = NoTask /\ poll(runner).stderr_task = NoTask
  /\ (Returned /\ Result.kind = "WriteStdin") =>
       /\ NothingRead
       /\ Len(runner.stdin.sent) < 2
  /\ (Returned /\ Result.kind = "Timeout" /\ Len(runner.stdin.sent) < 2) =>
       /\ NothingRead
       /\ runner.child = "killed"
       /\ runner.awaited
  /\ (Returned /\ Len(runner.stdin.sent) < 2) =>
       Result.kind \in {"EmptyCommand", "Spawn", "WriteStdin", "Timeout"}

\* The request went through and the deadline expired during the write of the
\* newline: the call returned Timeout with the child killed and nothing read.
C38_Witness ==
  /\ Returned
  /\ Result = Timeout(runner.timeout)
  /\ runner.stdin.sent = <<"request_json">>
  /\ runner.child = "killed"
  /\ NothingRead

\* A drain task that was spawned and has neither finished nor been aborted.
StillRunning(task) == task.state = "running"

\* C39: when the runner returns, with its output or with any failure (the
\* Timeout raised after the child has exited while a drain still reads among
\* them), neither drain task is still running: each has finished or has been
\* aborted.
C39_NoDrainRunsOnReturn ==
  Returned =>
    /\ ~StillRunning(runner.stdout_task)
    /\ ~StillRunning(runner.stderr_task)

\* The child exited before the deadline and the deadline expired in the join
\* of the stdout drain: the call returned Timeout, the stderr drain aborted
\* and the stdout drain, whose handle was dropped, still running.
C39_Witness ==
  /\ Returned
  /\ Result = Timeout(runner.timeout)
  /\ runner.exited_at # None
  /\ runner.child = "exited"
  /\ StillRunning(runner.stdout_task)
  /\ runner.stderr_task.state \in {"aborted", "ok"}

\* The size of the stream the reader was called on.
StreamSize == reader.pipe + reader.taken

\* What holds of a drain at every point of its run.
CeilingKept ==
  /\ reader.buf <= reader.limit_bytes
  /\ reader.pc # "not_called" =>
       /\ reader.limit_bytes = ceiling_of(reader.stream)
       /\ reader.taken <= StreamSize
       /\ reader.pc = "loop" => reader.buf = reader.taken
       /\ (reader.pc = "done" /\ Unwrap(reader.result).kind = "Ok") =>
            /\ StreamSize <= reader.limit_bytes
            /\ reader.buf = StreamSize
            /\ Unwrap(reader.result).n = StreamSize
            /\ reader.pipe = 0
       /\ (reader.pc = "done" /\ Unwrap(reader.result).kind = "OutputTooLarge") =>
            /\ Unwrap(reader.result)
                 = OutputTooLarge(reader.stream, ceiling_of(reader.stream))
            /\ StreamSize > reader.limit_bytes
            /\ reader.taken > reader.limit_bytes
            /\ reader.taken - reader.n <= reader.limit_bytes
            /\ reader.taken - reader.n = reader.buf
            /\ reader.pipe = StreamSize - reader.taken
       /\ (reader.pc = "loop" /\ StreamSize = reader.limit_bytes) =>
            \A short \in BOOLEAN :
              loop(reader, TRUE, short).result
                \in {None, Some(CommandOutput(reader.limit_bytes))}
       /\ reader.pc = "loop" =>
            \A short \in BOOLEAN :
              (loop(reader, TRUE, short).result
                 = Some(OutputTooLarge(reader.stream, reader.limit_bytes))
               <=> reader.taken + read(reader, short) > reader.limit_bytes)

\* C40: the bytes a drain collects never pass its ceiling; a stream of
\* exactly the ceiling is accepted whole; OutputTooLarge is raised exactly
\* when the bytes read so far and those of the read just made pass the
\* ceiling, at that read, and nothing of the stream is read after it.
C40_CeilingBoundary ==
  /\ [](CeilingKept)
  /\ [][reader.pc = "done" => reader' = reader]_vars

\* A stream of exactly the ceiling was read to its end and accepted whole.
C40_Witness ==
  /\ reader.pc = "done"
  /\ reader.stream = "stdout"
  /\ reader.result = Some(CommandOutput(MAX_TRANSLATION_STDOUT_BYTES))
  /\ reader.buf = MAX_TRANSLATION_STDOUT_BYTES

====
